---- MODULE Spec2Model ----
(***************************************************************************)
(* Model of the loan capital calculator (calculators/loans.py and          *)
(* calculators/constants.py).                                              *)
(*                                                                         *)
(* calculate_loan_capital is a pure function of its arguments.  The state  *)
(* machine submits one request at a time (Submit* actions draw the         *)
(* arguments from bounded sets), runs the calculation as one atomic step   *)
(* per path of the function (Calc* actions), and returns to idle.          *)
(*                                                                         *)
(* Encoding of Python values                                               *)
(*  - str: a tuple of one-character strings, so that strip(), lower() and  *)
(*    the `in` substring test are computed, not assumed.                   *)
(*  - Enum member: its name (a TLA+ string); a missing enum is NoneEnum.   *)
(*  - Optional number or dict: {} is None and {v} is the value v.          *)
(*  - float: fixed point.  PD and LGD are in units of 1/RateOne, risk      *)
(*    weights, LTV and RWA in units of 1/FOne (RWA per unit of EAD), the   *)
(*    capital ratio in units of 1/CrOne and capital_required in units of   *)
(*    1/(FOne*CrOne).  EAD and the property value are whole currency units.*)
(***************************************************************************)
EXTENDS Integers, Sequences, FiniteSets, TLC

VARIABLES pc, req, res, exc, stack

vars == <<pc, req, res, exc, stack>>

-----------------------------------------------------------------------------
(* Fixed-point scales and optional values *)

RateOne == 10^7
FOne == 10^5
CrOne == 10^2
KOne == 10^6
BOne == 3 * 10^3

None == {}
Some(v) == {v}
The(o) == CHOOSE v \in o : TRUE

NoneEnum == "None"

Pct(n) == n * (FOne \div 100)

(* Faulty variants of Min: the first argument, and the larger argument *)
First(a, b) == a
Larger(a, b) == IF b > a THEN b ELSE a

Max(a, b) == IF b > a THEN b ELSE a
Min(a, b) == IF b < a THEN b ELSE a

-----------------------------------------------------------------------------
(* Python str operations on character tuples *)

UpperChars == <<"A","B","C","D","E","F","G","H","I","J","K","L","M","N","O","P","Q","R","S","T","U","V","W","X","Y","Z">>
LowerChars == <<"a","b","c","d","e","f","g","h","i","j","k","l","m","n","o","p","q","r","s","t","u","v","w","x","y","z">>

LowerChar(c) ==
    IF \E i \in 1..26 : UpperChars[i] = c
    THEN LowerChars[CHOOSE i \in 1..26 : UpperChars[i] = c]
    ELSE c

UpperChar(c) ==
    IF \E i \in 1..26 : LowerChars[i] = c
    THEN UpperChars[CHOOSE i \in 1..26 : LowerChars[i] = c]
    ELSE c

RECURSIVE Lower(_)
Lower(s) == IF s = <<>> THEN <<>> ELSE <<LowerChar(Head(s))>> \o Lower(Tail(s))

RECURSIVE Upper(_)
Upper(s) == IF s = <<>> THEN <<>> ELSE <<UpperChar(Head(s))>> \o Upper(Tail(s))

IsSpace(c) == c \in {" ", "\t", "\n"}

RECURSIVE LStrip(_)
LStrip(s) ==
    IF s = <<>> THEN s
    ELSE IF IsSpace(Head(s)) THEN LStrip(Tail(s)) ELSE s

RECURSIVE RStrip(_)
RStrip(s) ==
    IF s = <<>> THEN s
    ELSE IF IsSpace(s[Len(s)]) THEN RStrip(SubSeq(s, 1, Len(s) - 1)) ELSE s

Strip(s) == RStrip(LStrip(s))

Contains(s, sub) ==
    \E i \in 0..(Len(s) - Len(sub)) : SubSeq(s, i + 1, i + Len(sub)) = sub

(* An argument that may be an Enum member, a str or None *)
EnumIn(e) == [tag |-> "enum", e |-> e, s |-> <<>>]
StrIn(s) == [tag |-> "str", e |-> "", s |-> s]
NoneIn == [tag |-> "none", e |-> "", s |-> <<>>]

-----------------------------------------------------------------------------
(* calculators/constants.py *)

RatingBucket == {"AAA_AA", "A", "BBB", "BB_B", "BELOW_B", "UNRATED"}

RatingBucketValue(e) ==
    CASE e = "AAA_AA" -> <<"A","A","A","_","A","A">>
      [] e = "A" -> <<"A">>
      [] e = "BBB" -> <<"B","B","B">>
      [] e = "BB_B" -> <<"B","B","_","B">>
      [] e = "BELOW_B" -> <<"B","E","L","O","W","_","B">>
      [] e = "UNRATED" -> <<"U","N","R","A","T","E","D">>

RatingBucketLabel(e) ==
    CASE e = "AAA_AA" -> <<"A","A","A"," ","t","o"," ","A","A","-">>
      [] e = "A" -> <<"A","+"," ","t","o"," ","A","-">>
      [] e = "BBB" -> <<"B","B","B","+"," ","t","o"," ","B","B","B","-">>
      [] e = "BB_B" -> <<"B","B","+"," ","t","o"," ","B","-">>
      [] e = "BELOW_B" -> <<"B","e","l","o","w"," ","B","-">>
      [] e = "UNRATED" -> <<"U","n","r","a","t","e","d">>

ExposureType ==
    {"CORPORATE", "RETAIL", "RESIDENTIAL_MORTGAGE", "COMMERCIAL_REAL_ESTATE",
     "SOVEREIGN_CENTRAL_BANK", "BANK", "OTHER"}

ExposureTypeValue(e) ==
    CASE e = "CORPORATE" -> <<"C","O","R","P","O","R","A","T","E">>
      [] e = "RETAIL" -> <<"R","E","T","A","I","L">>
      [] e = "RESIDENTIAL_MORTGAGE" -> <<"R","E","S","I","D","E","N","T","I","A","L","_","M","O","R","T","G","A","G","E">>
      [] e = "COMMERCIAL_REAL_ESTATE" -> <<"C","O","M","M","E","R","C","I","A","L","_","R","E","A","L","_","E","S","T","A","T","E">>
      [] e = "SOVEREIGN_CENTRAL_BANK" -> <<"S","O","V","E","R","E","I","G","N","_","C","E","N","T","R","A","L","_","B","A","N","K">>
      [] e = "BANK" -> <<"B","A","N","K">>
      [] e = "OTHER" -> <<"O","T","H","E","R">>

ExposureTypeLabel(e) ==
    CASE e = "CORPORATE" -> <<"C","o","r","p","o","r","a","t","e">>
      [] e = "RETAIL" -> <<"R","e","t","a","i","l">>
      [] e = "RESIDENTIAL_MORTGAGE" -> <<"R","e","s","i","d","e","n","t","i","a","l"," ","M","o","r","t","g","a","g","e">>
      [] e = "COMMERCIAL_REAL_ESTATE" -> <<"C","o","m","m","e","r","c","i","a","l"," ","R","e","a","l"," ","E","s","t","a","t","e">>
      [] e = "SOVEREIGN_CENTRAL_BANK" -> <<"S","o","v","e","r","e","i","g","n"," ","/"," ","C","e","n","t","r","a","l"," ","B","a","n","k">>
      [] e = "BANK" -> <<"B","a","n","k">>
      [] e = "OTHER" -> <<"O","t","h","e","r">>

Approach ==
    {"BASEL_II_STANDARDIZED", "BASEL_II_IRB", "BASEL_III_STANDARDIZED",
     "BASEL_III_IRB_FOUNDATION", "BASEL_III_IRB_ADVANCED"}

ApproachValue(e) ==
    CASE e = "BASEL_II_STANDARDIZED" -> <<"B","A","S","E","L","_","I","I","_","S","T","A","N","D","A","R","D","I","Z","E","D">>
      [] e = "BASEL_II_IRB" -> <<"B","A","S","E","L","_","I","I","_","I","R","B">>
      [] e = "BASEL_III_STANDARDIZED" -> <<"B","A","S","E","L","_","I","I","I","_","S","T","A","N","D","A","R","D","I","Z","E","D">>
      [] e = "BASEL_III_IRB_FOUNDATION" -> <<"B","A","S","E","L","_","I","I","I","_","I","R","B","_","F","O","U","N","D","A","T","I","O","N">>
      [] e = "BASEL_III_IRB_ADVANCED" -> <<"B","A","S","E","L","_","I","I","I","_","I","R","B","_","A","D","V","A","N","C","E","D">>

ApproachLabel(e) ==
    CASE e = "BASEL_II_STANDARDIZED" -> <<"B","a","s","e","l"," ","I","I"," ","-"," ","S","t","a","n","d","a","r","d","i","z","e","d">>
      [] e = "BASEL_II_IRB" -> <<"B","a","s","e","l"," ","I","I"," ","-"," ","I","R","B"," ","(","F","o","u","n","d","a","t","i","o","n",")">>
      [] e = "BASEL_III_STANDARDIZED" -> <<"B","a","s","e","l"," ","I","I","I"," ","-"," ","S","t","a","n","d","a","r","d","i","z","e","d">>
      [] e = "BASEL_III_IRB_FOUNDATION" -> <<"B","a","s","e","l"," ","I","I","I"," ","-"," ","I","R","B"," ","(","F","o","u","n","d","a","t","i","o","n",")"," ","+"," ","O","u","t","p","u","t"," ","F","l","o","o","r">>
      [] e = "BASEL_III_IRB_ADVANCED" -> <<"B","a","s","e","l"," ","I","I","I"," ","-"," ","I","R","B"," ","(","A","d","v","a","n","c","e","d",")"," ","+"," ","O","u","t","p","u","t"," ","F","l","o","o","r">>

ApproachRegime(e) ==
    CASE e = "BASEL_II_STANDARDIZED" -> "basel2"
      [] e = "BASEL_II_IRB" -> "basel2"
      [] e = "BASEL_III_STANDARDIZED" -> "basel3"
      [] e = "BASEL_III_IRB_FOUNDATION" -> "basel3"
      [] e = "BASEL_III_IRB_ADVANCED" -> "basel3"

ApproachMethod(e) ==
    CASE e = "BASEL_II_STANDARDIZED" -> "standardized"
      [] e = "BASEL_II_IRB" -> "irb"
      [] e = "BASEL_III_STANDARDIZED" -> "standardized"
      [] e = "BASEL_III_IRB_FOUNDATION" -> "irb"
      [] e = "BASEL_III_IRB_ADVANCED" -> "irb"

-----------------------------------------------------------------------------
(* calculators/loans.py: utilities *)

(* A faulty variant of normalize_rate: the percent branch also takes 1.0 *)
normalize_rate_ge(x, default) ==
    IF x = None THEN default
    ELSE LET val == The(x) IN
         IF val <= 0 THEN default
         ELSE IF val >= RateOne THEN val \div 100
         ELSE val

(* _normalize_rate(x, default); x is an optional number in units of 1/RateOne *)
normalize_rate(x, default) ==
    IF x = None THEN default
    ELSE LET val == The(x) IN
         IF val <= 0 THEN default
         ELSE IF val > RateOne THEN val \div 100
         ELSE val

(* _normalize_collateral_type: None or the stripped, lower-cased str *)
normalize_collateral_type(collateral_type) ==
    IF collateral_type.tag = "none" THEN None
    ELSE LET s == Lower(Strip(collateral_type.s)) IN
         IF s \in {<<>>, <<"n","o","n","e">>, <<"u","n","s","e","c","u","r","e","d">>, <<"n","/","a">>} THEN None
         ELSE Some(s)

RatingBucketLegacy(s) ==
    CASE s = <<"a","a","a"," ","t","o"," ","a","a","-">> -> "AAA_AA"
      [] s = <<"a","+"," ","t","o"," ","a","-">> -> "A"
      [] s = <<"b","b","b","+"," ","t","o"," ","b","b","b","-">> -> "BBB"
      [] s = <<"b","b","+"," ","t","o"," ","b","-">> -> "BB_B"
      [] s = <<"b","e","l","o","w"," ","b","-">> -> "BELOW_B"
      [] s = <<"u","n","r","a","t","e","d">> -> "UNRATED"
      [] OTHER -> NoneEnum

coerce_rating_bucket(rb) ==
    IF rb.tag = "none" THEN NoneEnum
    ELSE IF rb.tag = "enum" THEN rb.e
    ELSE LET s == Strip(rb.s) IN
         IF \E e \in RatingBucket : RatingBucketValue(e) = s
         THEN CHOOSE e \in RatingBucket : RatingBucketValue(e) = s
         ELSE IF \E e \in RatingBucket : Lower(RatingBucketLabel(e)) = Lower(s)
         THEN CHOOSE e \in RatingBucket : Lower(RatingBucketLabel(e)) = Lower(s)
         ELSE RatingBucketLegacy(Lower(s))

ExposureTypeLegacy(s) ==
    CASE s = <<"c","o","r","p","o","r","a","t","e">> -> "CORPORATE"
      [] s = <<"r","e","t","a","i","l">> -> "RETAIL"
      [] s = <<"r","e","s","i","d","e","n","t","i","a","l"," ","m","o","r","t","g","a","g","e">> -> "RESIDENTIAL_MORTGAGE"
      [] s = <<"c","o","m","m","e","r","c","i","a","l"," ","r","e","a","l"," ","e","s","t","a","t","e">> -> "COMMERCIAL_REAL_ESTATE"
      [] s = <<"c","o","m","m","e","r","c","i","a","l","_","r","e","a","l","_","e","s","t","a","t","e">> -> "COMMERCIAL_REAL_ESTATE"
      [] s = <<"s","o","v","e","r","e","i","g","n"," ","/"," ","c","e","n","t","r","a","l"," ","b","a","n","k">> -> "SOVEREIGN_CENTRAL_BANK"
      [] s = <<"s","o","v","e","r","e","i","g","n","/","c","e","n","t","r","a","l"," ","b","a","n","k">> -> "SOVEREIGN_CENTRAL_BANK"
      [] s = <<"s","o","v","e","r","e","i","g","n">> -> "SOVEREIGN_CENTRAL_BANK"
      [] s = <<"c","e","n","t","r","a","l"," ","b","a","n","k">> -> "SOVEREIGN_CENTRAL_BANK"
      [] s = <<"b","a","n","k">> -> "BANK"
      [] s = <<"o","t","h","e","r">> -> "OTHER"
      [] OTHER -> NoneEnum

(* A faulty variant of coerce_approach: the heuristic tests "irb" first *)
coerce_approach_irb_first(a) ==
    IF a.tag = "none" THEN NoneEnum
    ELSE IF a.tag = "enum" THEN a.e
    ELSE LET s == Strip(a.s)
             s_low == Lower(s)
         IN
         IF \E e \in Approach : ApproachValue(e) = s
         THEN CHOOSE e \in Approach : ApproachValue(e) = s
         ELSE IF \E e \in Approach : Lower(ApproachLabel(e)) = s_low
         THEN CHOOSE e \in Approach : Lower(ApproachLabel(e)) = s_low
         ELSE IF Contains(s_low, <<"i","r","b">>)
         THEN "BASEL_II_IRB"
         ELSE IF Contains(s_low, <<"b","a","s","e","l"," ","i","i","i">>) /\ Contains(s_low, <<"s","t","a","n","d","a","r","d">>)
         THEN "BASEL_III_STANDARDIZED"
         ELSE NoneEnum

coerce_exposure_type(et) ==
    IF et.tag = "none" THEN NoneEnum
    ELSE IF et.tag = "enum" THEN et.e
    ELSE LET s == Strip(et.s) IN
         IF \E e \in ExposureType : ExposureTypeValue(e) = s
         THEN CHOOSE e \in ExposureType : ExposureTypeValue(e) = s
         ELSE IF \E e \in ExposureType : Lower(ExposureTypeLabel(e)) = Lower(s)
         THEN CHOOSE e \in ExposureType : Lower(ExposureTypeLabel(e)) = Lower(s)
         ELSE ExposureTypeLegacy(Lower(s))

coerce_approach(a) ==
    IF a.tag = "none" THEN NoneEnum
    ELSE IF a.tag = "enum" THEN a.e
    ELSE LET s == Strip(a.s)
             s_low == Lower(s)
         IN
         IF \E e \in Approach : ApproachValue(e) = s
         THEN CHOOSE e \in Approach : ApproachValue(e) = s
         ELSE IF \E e \in Approach : Lower(ApproachLabel(e)) = s_low
         THEN CHOOSE e \in Approach : Lower(ApproachLabel(e)) = s_low
         ELSE IF Contains(s_low, <<"b","a","s","e","l"," ","i","i","i">>) /\ Contains(s_low, <<"s","t","a","n","d","a","r","d">>)
         THEN "BASEL_III_STANDARDIZED"
         ELSE IF Contains(s_low, <<"b","a","s","e","l"," ","i","i","i">>) /\ Contains(s_low, <<"a","d","v","a","n","c","e","d">>)
                 /\ Contains(s_low, <<"i","r","b">>)
         THEN "BASEL_III_IRB_ADVANCED"
         ELSE IF Contains(s_low, <<"b","a","s","e","l"," ","i","i","i">>) /\ Contains(s_low, <<"i","r","b">>)
         THEN "BASEL_III_IRB_FOUNDATION"
         ELSE IF Contains(s_low, <<"b","a","s","e","l"," ","i","i">>) /\ Contains(s_low, <<"s","t","a","n","d","a","r","d">>)
         THEN "BASEL_II_STANDARDIZED"
         ELSE IF Contains(s_low, <<"i","r","b">>)
         THEN "BASEL_II_IRB"
         ELSE NoneEnum

(* calculate_loan_capital, lines 125 and 143-157: coercion, then the
   fallback on (approach or "").lower() when coercion gave None *)
resolve_approach(approach) ==
    LET approach_enum == coerce_approach(approach) IN
    IF approach_enum # NoneEnum THEN approach_enum
    ELSE LET s == Lower(IF approach.tag = "str" THEN approach.s ELSE <<>>) IN
         IF Contains(s, <<"b","a","s","e","l"," ","i","i","i">>) /\ Contains(s, <<"s","t","a","n","d","a","r","d">>)
         THEN "BASEL_III_STANDARDIZED"
         ELSE IF Contains(s, <<"b","a","s","e","l"," ","i","i","i">>) /\ Contains(s, <<"a","d","v","a","n","c","e","d">>)
                 /\ Contains(s, <<"i","r","b">>)
         THEN "BASEL_III_IRB_ADVANCED"
         ELSE IF Contains(s, <<"b","a","s","e","l"," ","i","i","i">>) /\ Contains(s, <<"i","r","b">>)
         THEN "BASEL_III_IRB_FOUNDATION"
         ELSE IF Contains(s, <<"i","r","b">>)
         THEN "BASEL_II_IRB"
         ELSE IF Contains(s, <<"b","a","s","e","l"," ","i","i">>) /\ Contains(s, <<"s","t","a","n","d","a","r","d">>)
         THEN "BASEL_II_STANDARDIZED"
         ELSE "BASEL_II_STANDARDIZED"

(* calculate_loan_capital, lines 130-138 *)
normalize_jurisdiction(jurisdiction) ==
    LET jurisdiction_norm ==
            Upper(Strip(IF jurisdiction.tag = "str" /\ jurisdiction.s # <<>>
                        THEN jurisdiction.s ELSE <<"U","S">>))
    IN IF jurisdiction_norm \notin {<<"U","S">>, <<"C","A","N">>} THEN "US"
       ELSE IF jurisdiction_norm = <<"C","A","N">> THEN "CAN" ELSE "US"

(* A faulty variant of floor_regime_of: Canada needs the flag as well *)
FloorRegimeByFlag(jurisdiction_norm, apply_bcbs_baseline_floors) ==
    IF ~apply_bcbs_baseline_floors THEN "NONE"
    ELSE IF jurisdiction_norm = "CAN" THEN "OSFI" ELSE "BCBS"

floor_regime_of(jurisdiction_norm, apply_bcbs_baseline_floors) ==
    IF jurisdiction_norm = "CAN" THEN "OSFI"
    ELSE IF apply_bcbs_baseline_floors THEN "BCBS" ELSE "NONE"

-----------------------------------------------------------------------------
(* calculators/loans.py: module constants *)

(* SCALING_FACTOR_BASEL2_IRB = 1.06, in units of 1/100 *)
SCALING_FACTOR_BASEL2_IRB == 100 + 6

(* BASEL3_OUTPUT_FLOOR_PCT = 0.725, in units of 1/1000 *)
BASEL3_OUTPUT_FLOOR_PCT == 700 + 25

(* PD_FLOOR_BASEL3_GENERAL = 0.0005 *)
PD_FLOOR_BASEL3_GENERAL == (5 * RateOne) \div 10000

(* LGD_FLOORS_BASEL_WHOLESALE["unsecured"] = 0.25 *)
LGD_FLOOR_UNSECURED == (25 * RateOne) \div 100

(* LGD_FLOORS_BASEL_WHOLESALE["secured_by_collateral_type"] *)
SecuredCollateralTypes ==
    {<<"f","i","n","a","n","c","i","a","l">>, <<"r","e","c","e","i","v","a","b","l","e","s">>, <<"r","e","a","l","_","e","s","t","a","t","e">>, <<"o","t","h","e","r","_","p","h","y","s","i","c","a","l">>,
     <<"i","n","t","a","n","g","i","b","l","e","s">>}

LGD_FLOOR_SECURED(collateral_type) ==
    CASE collateral_type = <<"f","i","n","a","n","c","i","a","l">> -> 0
      [] collateral_type = <<"r","e","c","e","i","v","a","b","l","e","s">> -> (10 * RateOne) \div 100
      [] collateral_type = <<"r","e","a","l","_","e","s","t","a","t","e">> -> (10 * RateOne) \div 100
      [] collateral_type = <<"o","t","h","e","r","_","p","h","y","s","i","c","a","l">> -> (15 * RateOne) \div 100
      [] collateral_type = <<"i","n","t","a","n","g","i","b","l","e","s">> -> (25 * RateOne) \div 100

(* LGD_DEFAULTS_BASEL2_FIRB and LGD_DEFAULTS_BASEL3_FIRB *)
LGD_DEFAULTS_BASEL2_FIRB ==
    [corporate |-> (45 * RateOne) \div 100,
     bank |-> (45 * RateOne) \div 100,
     sovereign |-> (45 * RateOne) \div 100]

LGD_DEFAULTS_BASEL3_FIRB ==
    [corporate |-> (40 * RateOne) \div 100,
     bank |-> (45 * RateOne) \div 100,
     sovereign |-> (45 * RateOne) \div 100]

-----------------------------------------------------------------------------
(* Floor policy helper *)

(* A faulty variant of get_basel3_lgd_floor_policy: the unsecured floor for
   every collateral type *)
LgdFloorPolicyUnsecuredOnly(floor_regime, asset_class_key, collateral_type) ==
    IF asset_class_key = "sovereign" \/ floor_regime = "NONE" THEN
        [enabled |-> FALSE, floor_value |-> None, floor_source |-> floor_regime,
         rule_path |-> "No LGD floor applied",
         inputs |-> [collateral_type |-> collateral_type]]
    ELSE
        [enabled |-> TRUE, floor_value |-> Some(LGD_FLOOR_UNSECURED),
         floor_source |-> floor_regime,
         rule_path |-> "Basel III IRB LGD floor (wholesale unsecured)",
         inputs |-> [collateral_type |-> collateral_type]]

get_basel3_lgd_floor_policy(floor_regime, asset_class_key, collateral_type) ==
    IF asset_class_key = "sovereign" THEN
        [enabled |-> FALSE, floor_value |-> None, floor_source |-> floor_regime,
         rule_path |-> "Basel III IRB: LGD parameter floors do not apply to sovereign asset class",
         inputs |-> [collateral_type |-> collateral_type]]
    ELSE IF floor_regime = "NONE" THEN
        [enabled |-> FALSE, floor_value |-> None, floor_source |-> floor_regime,
         rule_path |-> "No Basel III-final LGD floors applied (floor regime configured as NONE)",
         inputs |-> [collateral_type |-> collateral_type]]
    ELSE IF collateral_type # None THEN
        IF The(collateral_type) \in SecuredCollateralTypes THEN
            [enabled |-> TRUE,
             floor_value |-> Some(LGD_FLOOR_SECURED(The(collateral_type))),
             floor_source |-> floor_regime,
             rule_path |-> "Basel III IRB LGD floor (wholesale secured)",
             inputs |-> [collateral_type |-> collateral_type]]
        ELSE
            [enabled |-> TRUE, floor_value |-> Some(LGD_FLOOR_UNSECURED),
             floor_source |-> floor_regime,
             rule_path |-> "Basel III IRB LGD floor: unknown collateral_type -> fallback to unsecured floor=25%",
             inputs |-> [collateral_type |-> collateral_type]]
    ELSE
        [enabled |-> TRUE, floor_value |-> Some(LGD_FLOOR_UNSECURED),
         floor_source |-> floor_regime,
         rule_path |-> "Basel III IRB LGD floor (wholesale unsecured default): floor=25% (no collateral_type provided)",
         inputs |-> [collateral_type |-> collateral_type]]

-----------------------------------------------------------------------------
(* Basel III Standardized: returns <<risk_weight, cre_details or None>> *)

(* A faulty variant of NestedCounterparty: the nested resolution receives
   the counterparty type of the CRE exposure *)
SameCounterparty(counterparty_type) == counterparty_type

(* _basel3_cre_risk_weight_with_details, line 500: the counterparty_type
   argument of the nested resolution is None *)
NestedCounterparty(counterparty_type) == NoneEnum

(* _basel3_cre_risk_weight_with_details, lines 489-492 and 502-558: the CRE
   rule, given the risk weight cp_rw0 returned by the resolution of the
   counterparty *)
basel3_cre_rule(rating_bucket, ead, property_value, property_income_dependent, counterparty_type, cp_rw0) ==
    LET ltv == IF property_value # None /\ The(property_value) > 0 /\ ead # None
               THEN Some((The(ead) * FOne) \div The(property_value))
               ELSE None
        cp_rw == IF counterparty_type \notin {"CORPORATE", "BANK"}
                 THEN Max(cp_rw0, Pct(100)) ELSE cp_rw0
        details == [asset_class |-> "CRE",
                    property_income_dependent |-> property_income_dependent,
                    counterparty_type |-> counterparty_type,
                    counterparty_rw |-> cp_rw,
                    ltv |-> ltv,
                    ltv_bucket |-> None,
                    rule_path |-> None,
                    rw_applied |-> None]
        Out(rw, bucket, path) ==
            <<rw, Some([details EXCEPT !.ltv_bucket = Some(bucket),
                                       !.rule_path = Some(path),
                                       !.rw_applied = Some(rw)])>>
    IN
    IF property_income_dependent THEN
        IF ltv = None THEN
            Out(Pct(110), "Unknown (no property_value)",
                "Basel III CRE (income-dependent): LTV unknown -> default RW 110%")
        ELSE IF The(ltv) <= Pct(60) THEN
            Out(Pct(70), "<= 60%",
                "Basel III CRE (income-dependent): LTV <= 60% -> RW 70%")
        ELSE IF The(ltv) <= Pct(80) THEN
            Out(Pct(90), "60%-80%",
                "Basel III CRE (income-dependent): 60% < LTV <= 80% -> RW 90%")
        ELSE
            Out(Pct(110), "> 80%",
                "Basel III CRE (income-dependent): LTV > 80% -> RW 110%")
    ELSE IF ltv # None THEN
        IF The(ltv) <= Pct(60) THEN
            Out(Min(Pct(60), cp_rw), "<= 60%",
                "Basel III CRE (general): LTV <= 60% -> RW = min(60%, RW_counterparty)")
        ELSE
            Out(cp_rw, "> 60%",
                "Basel III CRE (general): LTV > 60% -> RW = RW_counterparty")
    ELSE
        Out(Max(cp_rw, Pct(100)), "Unknown (no property_value)",
            "Basel III CRE (general): LTV unknown -> RW = max(RW_counterparty, 100%)")

RECURSIVE get_standardized_risk_weight_basel3(_, _, _, _, _, _)
RECURSIVE basel3_cre_risk_weight_with_details(_, _, _, _, _)

(* A faulty variant of get_standardized_risk_weight_basel3: one weight for
   every exposure and no CRE detail record *)
Basel3FlatWithoutDetails(exposure_type, rating_bucket, ead, property_value, property_income_dependent, counterparty_type) ==
    <<Pct(100), None>>

get_standardized_risk_weight_basel3(exposure_type, rating_bucket, ead, property_value, property_income_dependent, counterparty_type) ==
    IF exposure_type = "CORPORATE" THEN
        IF rating_bucket \in {"AAA_AA", "A", "BBB"} THEN <<Pct(75), None>>
        ELSE IF rating_bucket = "BB_B" THEN <<Pct(100), None>>
        ELSE IF rating_bucket = "BELOW_B" THEN <<Pct(150), None>>
        ELSE <<Pct(100), None>>
    ELSE IF exposure_type = "BANK" THEN
        IF rating_bucket = "AAA_AA" THEN <<Pct(20), None>>
        ELSE IF rating_bucket = "A" THEN <<Pct(50), None>>
        ELSE IF rating_bucket = "BBB" THEN <<Pct(75), None>>
        ELSE IF rating_bucket = "BB_B" THEN <<Pct(100), None>>
        ELSE IF rating_bucket = "BELOW_B" THEN <<Pct(150), None>>
        ELSE <<Pct(100), None>>
    ELSE IF exposure_type = "COMMERCIAL_REAL_ESTATE" THEN
        basel3_cre_risk_weight_with_details(
            rating_bucket, ead, property_value, property_income_dependent,
            IF counterparty_type # NoneEnum THEN counterparty_type ELSE "CORPORATE")
    ELSE <<Pct(100), None>>

basel3_cre_risk_weight_with_details(rating_bucket, ead, property_value, property_income_dependent, counterparty_type) ==
    basel3_cre_rule(
        rating_bucket, ead, property_value, property_income_dependent,
        counterparty_type,
        get_standardized_risk_weight_basel3(
            counterparty_type, rating_bucket, None, None, FALSE,
            NestedCounterparty(counterparty_type))[1])

-----------------------------------------------------------------------------
(* Basel II Standardized *)

(* Faulty variants of get_standardized_risk_weight_basel2: one weight for
   every exposure, and other weights for a missing type or bucket *)
FlatRiskWeight(exposure_type, rating_bucket, is_regulatory_retail, is_prudent_mortgage) ==
    FOne

MissingRiskWeight(exposure_type, rating_bucket, is_regulatory_retail, is_prudent_mortgage) ==
    IF rating_bucket = NoneEnum THEN Pct(150)
    ELSE IF exposure_type = NoneEnum THEN Pct(50)
    ELSE FOne

get_standardized_risk_weight_basel2(exposure_type, rating_bucket, is_regulatory_retail, is_prudent_mortgage) ==
    IF exposure_type = "CORPORATE" THEN
        IF rating_bucket = "AAA_AA" THEN Pct(20)
        ELSE IF rating_bucket = "A" THEN Pct(50)
        ELSE IF rating_bucket = "BBB" THEN Pct(100)
        ELSE IF rating_bucket = "BB_B" THEN Pct(100)
        ELSE IF rating_bucket = "BELOW_B" THEN Pct(150)
        ELSE Pct(100)
    ELSE IF exposure_type = "RETAIL" THEN
        IF is_regulatory_retail THEN Pct(75) ELSE Pct(100)
    ELSE IF exposure_type = "RESIDENTIAL_MORTGAGE" THEN
        IF is_prudent_mortgage THEN Pct(35) ELSE Pct(100)
    ELSE Pct(100)

-----------------------------------------------------------------------------
(* IRB ASRF core.

   math.exp, math.log, norm.ppf and norm.cdf are tabulated on the grid of
   PD values the requests can produce (double precision values of the
   source's expressions, rounded to the units below):
     AsrfR(pd_used)  the correlation R,                    units of 1/FOne
     AsrfB(pd_used)  b = (0.11852 - 0.05478 ln(pd))^2,     units of 1/BOne
     AsrfG(pd_used)  norm.cdf(term) - pd_used,             units of 1/KOne
   so that K = lgd_used * norm.cdf(term) - pd_used * lgd_used
            = lgd_used * AsrfG(pd_used).
   PdZeroDenominator stands for the double 2.9272443102476548e-06, one of
   the PD values for which 1.0 - 1.5 * b evaluates to exactly 0.0. *)

PdZeroDenominator == 20 + 9

(* float('nan'), the value of norm.ppf outside [0, 1] and of every
   arithmetic operation on it; no other value of the model is this low *)
NaN == 0 - 2^30

AsrfR(pd_used) ==
    CASE pd_used = 10 -> 23999
      [] pd_used = PdZeroDenominator -> 23998
      [] pd_used = 3000 -> 23821
      [] pd_used = 4000 -> 23762
      [] pd_used = 5000 -> 23704
      [] pd_used = 100000 -> 19278
      [] pd_used = 150000 -> 17668
      [] pd_used = 4500000 -> 12000
      [] pd_used = 10000000 -> 12000
      [] pd_used > RateOne -> 12000

AsrfB(pd_used) ==
    CASE pd_used = 10 -> 2299
      [] pd_used = PdZeroDenominator -> 2000
      [] pd_used = 3000 -> 951
      [] pd_used = 4000 -> 898
      [] pd_used = 5000 -> 858
      [] pd_used = 100000 -> 412
      [] pd_used = 150000 -> 365
      [] pd_used = 4500000 -> 79
      [] pd_used = 10000000 -> 42
      [] pd_used = 10100000 -> 42
      [] pd_used = 15000000 -> 28
      [] pd_used = 20000000 -> 19

AsrfG(pd_used) ==
    CASE pd_used = 10 -> 100
      [] pd_used = PdZeroDenominator -> 266
      [] pd_used = 3000 -> 13474
      [] pd_used = 4000 -> 16829
      [] pd_used = 5000 -> 19942
      [] pd_used = 100000 -> 130273
      [] pd_used = 150000 -> 153507
      [] pd_used = 4500000 -> 393078
      [] pd_used = 10000000 -> 0
      [] pd_used > RateOne -> NaN

(* Units of the maturity adjustment factor *)
MOne == 10^3

(* b, the numerator 1 + (M - 2.5) * b in units of 1/(12*BOne) and the
   denominator 1 - 1.5 * b in units of 1/(2*BOne); M is in months *)
MaturityNum(M, b) == 12 * BOne + (M - 30) * b
MaturityDen(b) == 2 * BOne - 3 * b

(* Floor of n/d for d # 0 of either sign *)
FloorDiv(n, d) == IF d > 0 THEN n \div d ELSE (0 - n) \div (0 - d)

(* Faulty variants of calculate_irb_stub: the stub reports a zero RWA, and
   the stub does not carry the approach label *)
IrbStubWithZeroRwa(approach_enum, ead, maturity_months, pd, lgd, capital_ratio) ==
    [approach_enum |-> approach_enum,
     approach_label |-> ApproachLabel(approach_enum),
     notes |-> "IRB stub - asset class not yet implemented.",
     EAD |-> ead, RWA |-> 0, capital_ratio |-> capital_ratio,
     capital_required |-> 0]

IrbStubWithoutLabel(approach_enum, ead, maturity_months, pd, lgd, capital_ratio) ==
    [approach_enum |-> approach_enum,
     notes |-> "IRB stub - asset class not yet implemented."]

calculate_irb_asrf(asset_class_key, asset_class_label, ead, pd, lgd, maturity_months, capital_ratio, approach_enum, pd_floors, lgd_defaults, scaling_factor, irb_mode, lgd_mode, lgd_floor_policy, jurisdiction, floor_regime, collateral_type) ==
    LET pd_in == normalize_rate(pd, RateOne \div 100)
        pd_floor == pd_floors[asset_class_key]
        pd_used == IF pd_floor <= 0 THEN pd_in ELSE Max(pd_in, pd_floor)
        pd_note == IF pd_floor <= 0
                   THEN "No PD floor applied for this asset class"
                   ELSE "PD used = max(PD input, PD floor)"
        M == IF maturity_months > 0
             THEN Min(60, Max(12, maturity_months))
             ELSE 30
        lgd_default == lgd_defaults[asset_class_key]
        lgd_in == normalize_rate(lgd, lgd_default)
        floored == lgd_mode # "supervisory"
                   /\ lgd_floor_policy.enabled
                   /\ lgd_floor_policy.floor_value # None
        lgd_floor_value == IF floored THEN lgd_floor_policy.floor_value ELSE None
        lgd_floor_applied == floored /\ lgd_in < The(lgd_floor_value)
        lgd_used == IF lgd_mode = "supervisory" THEN lgd_default
                    ELSE IF lgd_floor_applied THEN The(lgd_floor_value)
                    ELSE lgd_in
        lgd_source == IF lgd_mode = "supervisory" THEN "supervisory_default"
                      ELSE IF lgd # None /\ The(lgd) > 0 THEN "bank_estimated"
                      ELSE "default_used_missing_input"
        lgd_note == IF lgd_mode = "supervisory" THEN "Using supervisory default LGD"
                    ELSE IF lgd_floor_applied THEN "Bank-estimated LGD raised to floor"
                    ELSE IF floored THEN "Bank-estimated LGD used (>= floor)"
                    ELSE "Bank-estimated LGD used (no floor applied)"
        lgd_rule_path ==
            IF lgd_mode = "supervisory"
            THEN "Supervisory LGD default (Foundation or constrained exposure type)"
            ELSE lgd_floor_policy.rule_path
        R == AsrfR(pd_used)
        b == AsrfB(pd_used)
        K == IF AsrfG(pd_used) = NaN THEN NaN
             ELSE ((lgd_used \div (RateOne \div 1000)) * AsrfG(pd_used)) \div 1000
        den == MaturityDen(b)
        maturity_adj == FloorDiv(MaturityNum(M, b) * MOne, 6 * den)
        K_adj == IF K = NaN THEN NaN ELSE (K * maturity_adj) \div MOne
        rwa == IF K_adj = NaN THEN NaN
               ELSE ((((125 * scaling_factor) \div 10) * K_adj) \div 1000) * ead
        capital_required == IF rwa = NaN THEN NaN ELSE rwa * capital_ratio
    IN
    IF den = 0 THEN [raised |-> "ZeroDivisionError"]
    ELSE
    [approach_enum |-> approach_enum,
     approach_label |-> ApproachLabel(approach_enum),
     irb_mode |-> irb_mode,
     asset_class |-> asset_class_label,
     jurisdiction |-> jurisdiction,
     floor_regime |-> floor_regime,
     collateral_type |-> collateral_type,
     pd_input |-> pd_in,
     pd_used |-> pd_used,
     pd_floor |-> IF pd_floor > 0 THEN Some(pd_floor) ELSE None,
     pd_note |-> pd_note,
     lgd_input |-> lgd_in,
     lgd_mode |-> lgd_mode,
     lgd_used |-> lgd_used,
     lgd_source |-> lgd_source,
     lgd_default |-> lgd_default,
     lgd_floor_applied |-> lgd_floor_applied,
     lgd_floor_value |-> lgd_floor_value,
     lgd_note |-> lgd_note,
     lgd_rule_path |-> lgd_rule_path,
     lgd_floor_policy |-> lgd_floor_policy,
     maturity_years |-> M,
     supervisory_correlation_R |-> R,
     K_unadjusted |-> K,
     maturity_adjustment_factor |-> maturity_adj,
     K_adjusted |-> K_adj,
     irb_scaling_factor |-> scaling_factor,
     EAD |-> ead,
     RWA |-> rwa,
     effective_risk_weight_pct |->
         IF ead > 0 THEN Some(IF rwa = NaN THEN NaN ELSE rwa \div ead) ELSE None,
     capital_ratio |-> capital_ratio,
     capital_required |-> capital_required]

calculate_irb_stub(approach_enum, ead, maturity_months, pd, lgd, capital_ratio) ==
    [approach_enum |-> approach_enum,
     approach_label |-> ApproachLabel(approach_enum),
     notes |-> "IRB stub - asset class not yet implemented."]

-----------------------------------------------------------------------------
(* Public entry point *)

(* calculate_loan_capital, lines 183-207: the Standardized record, given
   the risk weight and the CRE detail record of the resolver *)
standardized_record(approach_enum, et_enum, rb_enum, jurisdiction_norm, floor_regime, collateral_type_norm, request, rw, cre_details) ==
    LET ead == request.ead
        property_value == request.property_value
        capital_ratio == request.capital_ratio
        version == IF ApproachRegime(approach_enum) = "basel3"
                   THEN "Basel III" ELSE "Basel II"
        rwa == ead * rw
        capital_required == rwa * capital_ratio
        out == [approach_enum |-> approach_enum,
                approach_label |-> ApproachLabel(approach_enum),
                version |-> version,
                jurisdiction |-> jurisdiction_norm,
                floor_regime |-> floor_regime,
                exposure_type_enum |-> et_enum,
                rating_bucket_enum |-> rb_enum,
                collateral_type |-> collateral_type_norm,
                risk_weight |-> rw,
                EAD |-> ead,
                property_value |-> property_value,
                LTV |-> IF property_value # None /\ The(property_value) > 0
                        THEN Some((ead * FOne) \div The(property_value))
                        ELSE None,
                property_income_dependent |-> request.property_income_dependent,
                RWA |-> rwa,
                capital_ratio |-> capital_ratio,
                capital_required |-> capital_required]
    IN IF cre_details # None
       THEN out @@ [cre_details |-> The(cre_details)]
       ELSE out

(* calculate_loan_capital, lines 162-207: the Standardized branch *)
standardized_result(approach_enum, et_enum, rb_enum, cp_enum, jurisdiction_norm, floor_regime, collateral_type_norm, request) ==
    LET b3 == get_standardized_risk_weight_basel3(
                  et_enum, rb_enum, Some(request.ead), request.property_value,
                  request.property_income_dependent, cp_enum)
        rw == IF ApproachRegime(approach_enum) = "basel3" THEN b3[1]
              ELSE get_standardized_risk_weight_basel2(
                       et_enum, rb_enum, request.is_regulatory_retail,
                       request.is_prudent_mortgage)
        cre_details == IF ApproachRegime(approach_enum) = "basel3" THEN b3[2] ELSE None
    IN standardized_record(approach_enum, et_enum, rb_enum, jurisdiction_norm,
                           floor_regime, collateral_type_norm, request, rw,
                           cre_details)

(* A faulty variant of asset_class_key_of: commercial real estate is sent to
   the ASRF engine as a Corporate exposure *)
AssetClassKeyCreAsCorporate(et_enum) ==
    IF et_enum \in {"CORPORATE", "COMMERCIAL_REAL_ESTATE"} THEN "corporate"
    ELSE IF et_enum = "BANK" THEN "bank"
    ELSE IF et_enum = "SOVEREIGN_CENTRAL_BANK" THEN "sovereign"
    ELSE NoneEnum

(* calculate_loan_capital, lines 216-235: asset class of an exposure type,
   NoneEnum where the code returns the IRB stub *)
asset_class_key_of(et_enum) ==
    IF et_enum = "CORPORATE" THEN "corporate"
    ELSE IF et_enum = "BANK" THEN "bank"
    ELSE IF et_enum = "SOVEREIGN_CENTRAL_BANK" THEN "sovereign"
    ELSE NoneEnum

asset_class_label_of(et_enum) ==
    IF et_enum = "CORPORATE" THEN "IRB - Corporate"
    ELSE IF et_enum = "BANK" THEN "IRB - Bank"
    ELSE "IRB - Sovereign/Central Bank"

(* A faulty variant of irb_settings: Advanced applies the bank-estimated LGD
   to every asset class, Bank included *)
IrbSettingsOwnLgdForBank(approach_enum, asset_class_key, floor_regime, collateral_type_norm) ==
    IF ApproachRegime(approach_enum) = "basel3" THEN
        LET pd_floors == [corporate |-> PD_FLOOR_BASEL3_GENERAL,
                          bank |-> PD_FLOOR_BASEL3_GENERAL,
                          sovereign |-> 0]
        IN
        IF approach_enum = "BASEL_III_IRB_ADVANCED" THEN
            [scaling_factor |-> 100, pd_floors |-> pd_floors,
             irb_mode |-> "Basel III IRB - Advanced",
             lgd_mode |-> "bank_estimated",
             lgd_defaults |-> LGD_DEFAULTS_BASEL3_FIRB,
             lgd_floor_policy |->
                 get_basel3_lgd_floor_policy(floor_regime, asset_class_key,
                                             collateral_type_norm)]
        ELSE
            [scaling_factor |-> 100, pd_floors |-> pd_floors,
             irb_mode |-> "Basel III IRB - Foundation",
             lgd_mode |-> "supervisory",
             lgd_defaults |-> LGD_DEFAULTS_BASEL3_FIRB,
             lgd_floor_policy |->
                 [enabled |-> FALSE, floor_value |-> None,
                  floor_source |-> floor_regime,
                  rule_path |-> "Foundation uses supervisory LGD defaults",
                  inputs |-> [collateral_type |-> collateral_type_norm]]]
    ELSE
        [scaling_factor |-> SCALING_FACTOR_BASEL2_IRB,
         pd_floors |-> [corporate |-> (3 * RateOne) \div 10000,
                        bank |-> (5 * RateOne) \div 10000,
                        sovereign |-> (5 * RateOne) \div 10000],
         irb_mode |-> "Basel II IRB - Foundation",
         lgd_mode |-> "supervisory",
         lgd_defaults |-> LGD_DEFAULTS_BASEL2_FIRB,
         lgd_floor_policy |->
             [enabled |-> FALSE, floor_value |-> None, floor_source |-> "N/A",
              rule_path |-> "Basel II IRB floors not changed here",
              inputs |-> [collateral_type |-> collateral_type_norm]]]

(* calculate_loan_capital, lines 238-298: the arguments of the ASRF engine
   that depend on the approach *)
irb_settings(approach_enum, asset_class_key, floor_regime, collateral_type_norm) ==
    IF ApproachRegime(approach_enum) = "basel3" THEN
        LET pd_floors == [corporate |-> PD_FLOOR_BASEL3_GENERAL,
                          bank |-> PD_FLOOR_BASEL3_GENERAL,
                          sovereign |-> 0]
        IN
        IF approach_enum = "BASEL_III_IRB_ADVANCED" THEN
            IF asset_class_key = "bank" THEN
                [scaling_factor |-> 100, pd_floors |-> pd_floors,
                 irb_mode |-> "Basel III IRB - Advanced",
                 lgd_mode |-> "supervisory",
                 lgd_defaults |-> LGD_DEFAULTS_BASEL3_FIRB,
                 lgd_floor_policy |->
                     [enabled |-> FALSE, floor_value |-> None,
                      floor_source |-> floor_regime,
                      rule_path |-> "A-IRB own-LGD not applied to bank exposures in this implementation -> supervisory LGD default used",
                      inputs |-> [collateral_type |-> collateral_type_norm]]]
            ELSE
                [scaling_factor |-> 100, pd_floors |-> pd_floors,
                 irb_mode |-> "Basel III IRB - Advanced",
                 lgd_mode |-> "bank_estimated",
                 lgd_defaults |-> LGD_DEFAULTS_BASEL3_FIRB,
                 lgd_floor_policy |->
                     get_basel3_lgd_floor_policy(floor_regime, asset_class_key,
                                                 collateral_type_norm)]
        ELSE
            [scaling_factor |-> 100, pd_floors |-> pd_floors,
             irb_mode |-> "Basel III IRB - Foundation",
             lgd_mode |-> "supervisory",
             lgd_defaults |-> LGD_DEFAULTS_BASEL3_FIRB,
             lgd_floor_policy |->
                 [enabled |-> FALSE, floor_value |-> None,
                  floor_source |-> floor_regime,
                  rule_path |-> "Foundation uses supervisory LGD defaults",
                  inputs |-> [collateral_type |-> collateral_type_norm]]]
    ELSE
        [scaling_factor |-> SCALING_FACTOR_BASEL2_IRB,
         pd_floors |-> [corporate |-> (3 * RateOne) \div 10000,
                        bank |-> (5 * RateOne) \div 10000,
                        sovereign |-> (5 * RateOne) \div 10000],
         irb_mode |-> "Basel II IRB - Foundation",
         lgd_mode |-> "supervisory",
         lgd_defaults |-> LGD_DEFAULTS_BASEL2_FIRB,
         lgd_floor_policy |->
             [enabled |-> FALSE, floor_value |-> None, floor_source |-> "N/A",
              rule_path |-> "Basel II IRB floors not changed here",
              inputs |-> [collateral_type |-> collateral_type_norm]]]

(* A faulty variant of the binding comparison *)
GreaterOrEqual(a, b) == a >= b

(* The comparison rwa_final > rwa_irb_pre_floor + 1e-12.  RWA values of the
   model are whole multiples of 1/FOne, which is more than 1e-12, so for
   them a > b + 1e-12 exactly when a > b. *)
GreaterByEps(a, b) == a > b

(* Faulty variants of apply_output_floor: the floor is not applied, and the
   floor overwrites the RWA but not the capital required *)
OutputFloorSkipped(irb_result, et_enum, rb_enum, cp_enum, request) ==
    irb_result

OutputFloorKeepsCapital(irb_result, et_enum, rb_enum, cp_enum, request) ==
    LET std == get_standardized_risk_weight_basel3(
                   et_enum, rb_enum, Some(request.ead), request.property_value,
                   request.property_income_dependent, cp_enum)
        floor_rwa == (BASEL3_OUTPUT_FLOOR_PCT * (request.ead * std[1])) \div 1000
    IN [(irb_result @@ [output_floor |-> [enabled |-> TRUE]])
            EXCEPT !.RWA = Max(irb_result.RWA, floor_rwa)]

(* calculate_loan_capital, lines 323-362: the Basel III output floor applied
   to the result of the ASRF engine *)
apply_output_floor(irb_result, et_enum, rb_enum, cp_enum, request) ==
    LET ead == request.ead
        std == get_standardized_risk_weight_basel3(
                   et_enum, rb_enum, Some(ead), request.property_value,
                   request.property_income_dependent, cp_enum)
        std_rw == std[1]
        std_cre_details == std[2]
        rwa_std == ead * std_rw
        floor_rwa == (BASEL3_OUTPUT_FLOOR_PCT * rwa_std) \div 1000
        rwa_irb_pre_floor == irb_result.RWA
        rwa_final == IF rwa_irb_pre_floor = NaN THEN NaN
                     ELSE Max(rwa_irb_pre_floor, floor_rwa)
        capital_required_final == IF rwa_final = NaN THEN NaN
                                  ELSE rwa_final * request.capital_ratio
        output_floor0 ==
            [enabled |-> TRUE,
             floor_pct_of_standardized_rwa |-> BASEL3_OUTPUT_FLOOR_PCT,
             standardized_version_used |-> "Basel III",
             standardized_risk_weight |-> std_rw,
             standardized_rwa |-> rwa_std,
             floor_rwa |-> floor_rwa,
             rwa_irb_pre_floor |-> rwa_irb_pre_floor,
             rwa_final_post_floor |-> rwa_final,
             binding |-> rwa_final # NaN
                         /\ GreaterByEps(rwa_final, rwa_irb_pre_floor),
             notes |-> "RWA_final = max(RWA_IRB, 72.5% x RWA_Standardized)."]
        output_floor ==
            IF std_cre_details # None
            THEN output_floor0 @@ [standardized_cre_details |-> The(std_cre_details)]
            ELSE output_floor0
    IN [(irb_result @@ [output_floor |-> output_floor])
            EXCEPT !.RWA = rwa_final,
                   !.capital_required = capital_required_final,
                   !.effective_risk_weight_pct =
                       IF ead > 0
                       THEN Some(IF rwa_final = NaN THEN NaN ELSE rwa_final \div ead)
                       ELSE None]

(* calculate_loan_capital(request): the returned dict, or [raised |-> E]
   when the call ends with exception E *)
calculate_loan_capital(request) ==
    LET approach_enum == resolve_approach(request.approach)
        et_enum == coerce_exposure_type(request.exposure_type)
        rb_enum == coerce_rating_bucket(request.rating_bucket)
        cp_enum == IF request.counterparty_type.tag # "none"
                   THEN coerce_exposure_type(request.counterparty_type)
                   ELSE "CORPORATE"
        jurisdiction_norm == normalize_jurisdiction(request.jurisdiction)
        floor_regime == floor_regime_of(jurisdiction_norm,
                                        request.apply_bcbs_baseline_floors)
        collateral_type_norm == normalize_collateral_type(request.collateral_type)
        asset_class_key == asset_class_key_of(et_enum)
        settings == irb_settings(approach_enum, asset_class_key, floor_regime,
                                 collateral_type_norm)
        irb_result == calculate_irb_asrf(
            asset_class_key, asset_class_label_of(et_enum), request.ead,
            request.pd, request.lgd, request.maturity_months,
            request.capital_ratio, approach_enum, settings.pd_floors,
            settings.lgd_defaults, settings.scaling_factor, settings.irb_mode,
            settings.lgd_mode, settings.lgd_floor_policy, jurisdiction_norm,
            floor_regime, collateral_type_norm)
    IN
    IF ApproachMethod(approach_enum) = "standardized" THEN
        standardized_result(approach_enum, et_enum, rb_enum, cp_enum,
                            jurisdiction_norm, floor_regime,
                            collateral_type_norm, request)
    ELSE IF ApproachMethod(approach_enum) = "irb" THEN
        IF asset_class_key = NoneEnum THEN
            calculate_irb_stub(approach_enum, request.ead,
                               request.maturity_months, request.pd,
                               request.lgd, request.capital_ratio)
        ELSE IF "raised" \in DOMAIN irb_result THEN irb_result
        ELSE IF ApproachRegime(approach_enum) # "basel3" THEN irb_result
        ELSE apply_output_floor(irb_result, et_enum, rb_enum, cp_enum, request)
    ELSE [error |-> "Unsupported approach/method"]

-----------------------------------------------------------------------------
(* Requests *)

(* EAD, in units of currency *)
MaxEad == 5

EADs == 0..MaxEad

(* capital_ratio, in percent *)
CapitalRatios == {8, 10}

(* property_value: missing, zero, negative, equal to the largest EAD of the
   initial bound and above it *)
PropertyValues == {None, Some(0), Some(0 - 5), Some(5), Some(10)}

(* pd: missing, zero, negative, decimals of (0, 1] and percentages of
   (1, 100].  A PD is a probability given as a decimal or as a percentage,
   so inputs above 100 are outside these requests. *)
PDInputs ==
    {None, Some(0), Some(0 - RateOne \div 100), Some(10), Some(PdZeroDenominator),
     Some((4 * RateOne) \div 10000), Some(RateOne \div 100),
     Some((45 * RateOne) \div 100), Some(RateOne), Some(45 * RateOne),
     Some((15 * RateOne) \div 10)}

(* lgd: missing, zero, decimals of (0, 1] and the percentage 45 *)
LGDInputs ==
    {None, Some(0), Some((5 * RateOne) \div 100), Some((20 * RateOne) \div 100),
     Some((45 * RateOne) \div 100), Some(45 * RateOne)}

(* maturity_months: zero (no maturity), below one year, between one and
   five years, above five years *)
MaturityInputs == {0, 6, 36, 120}

ApproachStrings ==
    {<<"B","A","S","E","L","_","I","I","I","_","S","T","A","N","D","A","R","D","I","Z","E","D">>, <<" "," ","B","A","S","E","L","_","I","I","_","I","R","B"," ">>,
     <<"b","a","s","e","l"," ","i","i","i"," ","-"," ","i","r","b"," ","(","a","d","v","a","n","c","e","d",")"," ","+"," ","o","u","t","p","u","t"," ","f","l","o","o","r">>,
     <<"B","a","s","e","l"," ","I","I","I"," ","-"," ","S","t","a","n","d","a","r","d","i","z","e","d">>, <<"B","A","S","E","L"," ","I","I"," ","-"," ","I","R","B"," ","(","F","O","U","N","D","A","T","I","O","N",")">>,
     <<"B","a","s","e","l"," ","I","I","I"," ","S","t","a","n","d","a","r","d","i","s","e","d">>, <<"B","a","s","e","l"," ","I","I","I"," ","A","d","v","a","n","c","e","d"," ","I","R","B">>, <<"b","a","s","e","l"," ","i","i","i"," ","i","r","b">>,
     <<"B","a","s","e","l"," ","I","I"," ","S","t","a","n","d","a","r","d","i","z","e","d">>, <<"I","R","B">>, <<"B","A","S","E","L","_","I","I","I","_","I","R","B">>,
     <<"b","a","s","e","l","_","i","i","i","_","s","t","a","n","d","a","r","d","i","z","e","d">>, <<"B","a","s","e","l"," ","I","I","I">>, <<"f","o","o">>, <<>>}

ApproachInputs ==
    {EnumIn(e) : e \in Approach} \cup {StrIn(s) : s \in ApproachStrings}
    \cup {NoneIn}

ExposureTypeStrings ==
    {<<"C","O","R","P","O","R","A","T","E">>, <<"S","o","v","e","r","e","i","g","n"," ","/"," ","C","e","n","t","r","a","l"," ","B","a","n","k">>, <<"C","e","n","t","r","a","l"," ","B","a","n","k">>, <<" ","b","a","n","k"," ">>,
     <<"c","o","m","m","e","r","c","i","a","l","_","r","e","a","l","_","e","s","t","a","t","e">>, <<"H","e","d","g","e"," ","F","u","n","d">>, <<>>}

ExposureTypeInputs ==
    {EnumIn(e) : e \in ExposureType} \cup {StrIn(s) : s \in ExposureTypeStrings}
    \cup {NoneIn}

RatingBucketStrings ==
    {<<"B","B","B">>, <<"b","b","b","+"," ","t","o"," ","b","b","b","-">>, <<"a">>, <<"B","e","l","o","w"," ","B","-">>, <<"u","n","r","a","t","e","d">>, <<"X","Y","Z">>}

RatingBucketInputs ==
    {EnumIn(e) : e \in RatingBucket} \cup {StrIn(s) : s \in RatingBucketStrings}
    \cup {NoneIn}

JurisdictionInputs ==
    {StrIn(<<"U","S">>), StrIn(<<"u","s"," ">>), StrIn(<<"C","A","N">>), StrIn(<<" ","c","a","n"," ">>),
     StrIn(<<"E","U">>), NoneIn}

CollateralInputs ==
    {NoneIn, StrIn(<<"f","i","n","a","n","c","i","a","l">>), StrIn(<<"r","e","c","e","i","v","a","b","l","e","s">>), StrIn(<<"r","e","a","l","_","e","s","t","a","t","e">>),
     StrIn(<<"o","t","h","e","r","_","p","h","y","s","i","c","a","l">>), StrIn(<<"i","n","t","a","n","g","i","b","l","e","s">>), StrIn(<<"g","o","l","d">>),
     StrIn(<<"U","n","s","e","c","u","r","e","d">>)}

(* The arguments' defaults (the signature's, and the front end's initial
   values for the arguments that have none) *)
DefaultRequest ==
    [approach |-> EnumIn("BASEL_II_STANDARDIZED"),
     ead |-> 1,
     maturity_months |-> 36,
     pd |-> Some(RateOne \div 100),
     lgd |-> Some((45 * RateOne) \div 100),
     exposure_type |-> EnumIn("CORPORATE"),
     rating_bucket |-> EnumIn("UNRATED"),
     is_regulatory_retail |-> FALSE,
     is_prudent_mortgage |-> FALSE,
     capital_ratio |-> 8,
     jurisdiction |-> StrIn(<<"U","S">>),
     apply_bcbs_baseline_floors |-> FALSE,
     collateral_type |-> NoneIn,
     property_value |-> None,
     property_income_dependent |-> FALSE,
     counterparty_type |-> NoneIn]

NoResult == [none |-> TRUE]

-----------------------------------------------------------------------------
(* The state machine *)

Init ==
    /\ pc = "idle"
    /\ req = DefaultRequest
    /\ res = NoResult
    /\ exc = ""
    /\ stack = <<>>

Call(request) ==
    /\ pc' = "called"
    /\ req' = request
    /\ UNCHANGED <<res, exc, stack>>

(* Standardized requests: approach, exposure type, rating bucket, EAD,
   the two regulatory flags and the capital ratio *)
SubmitStandardized ==
    /\ pc = "idle"
    /\ \E a \in {"BASEL_II_STANDARDIZED", "BASEL_III_STANDARDIZED"},
          et \in {EnumIn(e) : e \in ExposureType} \cup {NoneIn},
          rb \in {EnumIn(e) : e \in RatingBucket} \cup {NoneIn},
          ead \in EADs, rr \in BOOLEAN, pm \in BOOLEAN, cr \in CapitalRatios :
           Call([DefaultRequest EXCEPT
                    !.approach = EnumIn(a), !.exposure_type = et,
                    !.rating_bucket = rb, !.ead = ead,
                    !.is_regulatory_retail = rr, !.is_prudent_mortgage = pm,
                    !.capital_ratio = cr])

(* Standardized requests whose exposure type and rating bucket are given as
   an Enum member, a str or None *)
SubmitCoercion ==
    /\ pc = "idle"
    /\ \E a \in {"BASEL_II_STANDARDIZED", "BASEL_III_STANDARDIZED"},
          et \in ExposureTypeInputs, rb \in RatingBucketInputs :
           Call([DefaultRequest EXCEPT
                    !.approach = EnumIn(a), !.exposure_type = et,
                    !.rating_bucket = rb, !.ead = MaxEad])

(* Commercial real estate requests: the CRE arguments *)
SubmitCre ==
    /\ pc = "idle"
    /\ \E rb \in {EnumIn(e) : e \in RatingBucket} \cup {NoneIn}, ead \in EADs,
          pv \in PropertyValues, dep \in BOOLEAN,
          cp \in {EnumIn(e) : e \in ExposureType}
                  \cup {NoneIn, StrIn(<<"H","e","d","g","e"," ","F","u","n","d">>)} :
           Call([DefaultRequest EXCEPT
                    !.approach = EnumIn("BASEL_III_STANDARDIZED"),
                    !.exposure_type = EnumIn("COMMERCIAL_REAL_ESTATE"),
                    !.rating_bucket = rb, !.ead = ead, !.property_value = pv,
                    !.property_income_dependent = dep, !.counterparty_type = cp])

(* IRB requests: approach, exposure type, rating bucket, EAD, PD, maturity
   and the capital ratio *)
SubmitIrb ==
    /\ pc = "idle"
    /\ \E a \in {"BASEL_II_IRB", "BASEL_III_IRB_FOUNDATION", "BASEL_III_IRB_ADVANCED"},
          et \in {"CORPORATE", "BANK", "SOVEREIGN_CENTRAL_BANK"},
          rb \in {EnumIn("AAA_AA"), EnumIn("BELOW_B"), NoneIn},
          ead \in {0, 1, MaxEad}, pd \in PDInputs, m \in MaturityInputs,
          cr \in CapitalRatios :
           Call([DefaultRequest EXCEPT
                    !.approach = EnumIn(a), !.exposure_type = EnumIn(et),
                    !.rating_bucket = rb, !.ead = ead, !.pd = pd,
                    !.maturity_months = m, !.capital_ratio = cr])

(* IRB requests on every exposure type, given as an Enum member, a str or
   None, with and without the CRE arguments *)
SubmitIrbExposure ==
    /\ pc = "idle"
    /\ \E a \in {"BASEL_II_IRB", "BASEL_III_IRB_FOUNDATION", "BASEL_III_IRB_ADVANCED"},
          et \in ExposureTypeInputs, ead \in {0, MaxEad},
          pv \in {None, Some(10)} :
           Call([DefaultRequest EXCEPT
                    !.approach = EnumIn(a), !.exposure_type = et, !.ead = ead,
                    !.property_value = pv])

(* IRB requests: the LGD, jurisdiction, floor flag and collateral type *)
SubmitIrbLgd ==
    /\ pc = "idle"
    /\ \E a \in {"BASEL_II_IRB", "BASEL_III_IRB_FOUNDATION", "BASEL_III_IRB_ADVANCED"},
          et \in {"CORPORATE", "BANK", "SOVEREIGN_CENTRAL_BANK"},
          lgd \in LGDInputs, j \in JurisdictionInputs, fl \in BOOLEAN,
          ct \in CollateralInputs,
          pd \in {Some((4 * RateOne) \div 10000), Some(RateOne \div 100)} :
           Call([DefaultRequest EXCEPT
                    !.approach = EnumIn(a), !.exposure_type = EnumIn(et),
                    !.lgd = lgd, !.jurisdiction = j,
                    !.apply_bcbs_baseline_floors = fl, !.collateral_type = ct,
                    !.ead = MaxEad, !.pd = pd])

(* Requests whose approach is an Enum member, a str or None *)
SubmitApproachText ==
    /\ pc = "idle"
    /\ \E a \in ApproachInputs,
          et \in {EnumIn("CORPORATE"), EnumIn("RETAIL"), StrIn(<<"H","e","d","g","e"," ","F","u","n","d">>)},
          rb \in {EnumIn("BBB"), StrIn(<<"X","Y","Z">>)}, ead \in {0, MaxEad} :
           Call([DefaultRequest EXCEPT
                    !.approach = a, !.exposure_type = et, !.rating_bucket = rb,
                    !.ead = ead])

Finish(out) ==
    /\ pc' = "done"
    /\ res' = IF "raised" \in DOMAIN out THEN NoResult ELSE out
    /\ exc' = IF "raised" \in DOMAIN out THEN out.raised ELSE ""
    /\ UNCHANGED <<req, stack>>

(* The Standardized branch returns *)
CalcStandardized ==
    /\ pc = "called"
    /\ ApproachMethod(resolve_approach(req.approach)) = "standardized"
    /\ Finish(calculate_loan_capital(req))

(* The IRB branch returns the stub *)
CalcIrbStub ==
    /\ pc = "called"
    /\ ApproachMethod(resolve_approach(req.approach)) = "irb"
    /\ asset_class_key_of(coerce_exposure_type(req.exposure_type)) = NoneEnum
    /\ Finish(calculate_loan_capital(req))

(* The IRB branch returns the ASRF result as it is (Basel II) *)
CalcIrbBasel2 ==
    /\ pc = "called"
    /\ ApproachMethod(resolve_approach(req.approach)) = "irb"
    /\ asset_class_key_of(coerce_exposure_type(req.exposure_type)) # NoneEnum
    /\ ApproachRegime(resolve_approach(req.approach)) # "basel3"
    /\ Finish(calculate_loan_capital(req))

(* The IRB branch applies the output floor (Basel III) *)
CalcIrbBasel3 ==
    /\ pc = "called"
    /\ ApproachMethod(resolve_approach(req.approach)) = "irb"
    /\ asset_class_key_of(coerce_exposure_type(req.exposure_type)) # NoneEnum
    /\ ApproachRegime(resolve_approach(req.approach)) = "basel3"
    /\ Finish(calculate_loan_capital(req))

(* The caller takes the result; the next request starts from the defaults *)
Return ==
    /\ pc = "done"
    /\ pc' = "idle"
    /\ req' = DefaultRequest
    /\ res' = NoResult
    /\ exc' = ""
    /\ stack' = <<>>

Next ==
    \/ SubmitStandardized
    \/ SubmitCoercion
    \/ SubmitCre
    \/ SubmitIrb
    \/ SubmitIrbExposure
    \/ SubmitIrbLgd
    \/ SubmitApproachText
    \/ CalcStandardized
    \/ CalcIrbStub
    \/ CalcIrbBasel2
    \/ CalcIrbBasel3
    \/ Return

Spec == Init /\ [][Next]_vars


-----------------------------------------------------------------------------
(* The front end (app.py) *)

(* The parameters of calculate_loan_capital, lines 101-124 *)
SignatureParameters ==
    {"approach", "ead", "balance", "maturity_months", "amortization_months",
     "interest_rate", "pd", "lgd", "exposure_type", "rating_bucket",
     "is_regulatory_retail", "is_prudent_mortgage", "capital_ratio",
     "jurisdiction", "apply_bcbs_baseline_floors", "collateral_type",
     "property_value", "property_income_dependent", "counterparty_type"}

(* COLLATERAL_OPTIONS, app.py lines 26-33 *)
COLLATERAL_OPTIONS ==
    {NoneIn, StrIn(<<"f","i","n","a","n","c","i","a","l">>), StrIn(<<"r","e","c","e","i","v","a","b","l","e","s">>), StrIn(<<"r","e","a","l","_","e","s","t","a","t","e">>),
     StrIn(<<"o","t","h","e","r","_","p","h","y","s","i","c","a","l">>), StrIn(<<"i","n","t","a","n","g","i","b","l","e","s">>)}

(* default_revenue_threshold, app.py lines 36-42, in millions *)
default_revenue_threshold(jurisdiction) ==
    IF jurisdiction = <<"C","A","N">> THEN 750 ELSE 500

(* Annual revenue entered in the form, in millions *)
AnnualRevenues == {0, 600}

(* The keyword arguments of the call of app.py lines 294-316, built from
   the widgets: the CRE widgets exist only for Basel III Standardized on
   commercial real estate, the floor checkbox is disabled outside the US *)
FrontEndRequest(a, et, rb, j, fl, ead, ct, ar, rt, pv, dep, cp) ==
    LET show_cre_fields == a = "BASEL_III_STANDARDIZED"
                           /\ et = "COMMERCIAL_REAL_ESTATE"
    IN [approach |-> EnumIn(a),
        ead |-> ead,
        balance |-> ead,
        maturity_months |-> 36,
        amortization_months |-> 60,
        interest_rate |-> (6 * RateOne) \div 100,
        pd |-> Some(RateOne \div 100),
        lgd |-> Some((45 * RateOne) \div 100),
        exposure_type |-> EnumIn(et),
        rating_bucket |-> EnumIn(rb),
        is_regulatory_retail |-> FALSE,
        is_prudent_mortgage |-> FALSE,
        capital_ratio |-> 8,
        jurisdiction |-> StrIn(j),
        apply_bcbs_baseline_floors |-> (fl /\ j = <<"U","S">>),
        collateral_type |-> ct,
        annual_revenue |-> Some(ar),
        revenue_threshold |-> Some(rt),
        property_value |-> IF show_cre_fields THEN pv ELSE None,
        property_income_dependent |-> show_cre_fields /\ dep,
        counterparty_type |-> IF show_cre_fields THEN EnumIn(cp) ELSE NoneIn]

(* The user sets the widgets and presses 'Run Calculation' *)
RunCalculation ==
    /\ pc = "idle"
    /\ \E a \in Approach, et \in ExposureType, rb \in {"A", "UNRATED"},
          j \in {<<"U","S">>, <<"C","A","N">>, <<"E","U">>}, fl \in BOOLEAN, ead \in {0, MaxEad},
          ct \in COLLATERAL_OPTIONS, ar \in AnnualRevenues,
          pv \in {Some(0), Some(10)}, dep \in BOOLEAN,
          cp \in {"CORPORATE", "COMMERCIAL_REAL_ESTATE"} :
           \E rt \in {default_revenue_threshold(j), 600} :
               Call(FrontEndRequest(a, et, rb, j, fl, ead, ct, ar, rt, pv, dep, cp))

(* The call of app.py line 294: Python binds the keyword arguments to the
   parameters of the function and raises TypeError for a keyword that is
   not a parameter; otherwise the function runs *)
CallFromFrontEnd ==
    /\ pc = "called"
    /\ Finish(IF DOMAIN req \subseteq SignatureParameters
              THEN calculate_loan_capital(req)
              ELSE [raised |-> "TypeError"])

NextFrontEnd ==
    \/ RunCalculation
    \/ CallFromFrontEnd
    \/ Return

SpecFrontEnd == Init /\ [][NextFrontEnd]_vars

-----------------------------------------------------------------------------
(* IRB calls with every numeric PD *)

(* pd: the PD inputs of the requests above and percentages above 100 *)
AnyPDInputs ==
    PDInputs \cup {Some(101 * RateOne), Some(150 * RateOne), Some(200 * RateOne)}

SubmitIrbAnyPd ==
    /\ pc = "idle"
    /\ \E a \in {"BASEL_II_IRB", "BASEL_III_IRB_FOUNDATION", "BASEL_III_IRB_ADVANCED"},
          et \in {"CORPORATE", "BANK", "SOVEREIGN_CENTRAL_BANK"},
          ead \in {0, 1, MaxEad}, pd \in AnyPDInputs, cr \in CapitalRatios :
           Call([DefaultRequest EXCEPT
                    !.approach = EnumIn(a), !.exposure_type = EnumIn(et),
                    !.ead = ead, !.pd = pd, !.capital_ratio = cr])

NextAnyPd ==
    \/ SubmitIrbAnyPd
    \/ CalcIrbBasel2
    \/ CalcIrbBasel3
    \/ Return

SpecAnyPd == Init /\ [][NextAnyPd]_vars

-----------------------------------------------------------------------------
(* The Basel III Standardized resolver, call by call.  stack holds the
   frames of get_standardized_risk_weight_basel3 ("get") and of
   _basel3_cre_risk_weight_with_details ("cre") that have not returned, the
   innermost last; cp_rw of a "cre" frame is the risk weight its nested
   resolution has returned, None before it returns. *)

(* The deepest stack the frames may reach in the model; the resolver of the
   code needs five frames at most, so this bound stops no call *)
MaxStack == 8

GetFrame(exposure_type, rating_bucket, ead, property_value, property_income_dependent, counterparty_type) ==
    [fn |-> "get", exposure_type |-> exposure_type,
     rating_bucket |-> rating_bucket, ead |-> ead,
     property_value |-> property_value,
     property_income_dependent |-> property_income_dependent,
     counterparty_type |-> counterparty_type, cp_rw |-> None]

CreFrame(rating_bucket, ead, property_value, property_income_dependent, counterparty_type) ==
    [fn |-> "cre", exposure_type |-> NoneEnum,
     rating_bucket |-> rating_bucket, ead |-> ead,
     property_value |-> property_value,
     property_income_dependent |-> property_income_dependent,
     counterparty_type |-> counterparty_type, cp_rw |-> None]

Top == stack[Len(stack)]

(* The frames left when the innermost n have returned *)
Callers(n) == SubSeq(stack, 1, Len(stack) - n)

(* A frame returns value = <<rw, details>> to the frames in callers: to the
   "cre" frame that waits for its counterparty's weight, or, when there is
   no caller left, to calculate_loan_capital, which builds the record *)
Deliver(value, callers) ==
    IF callers = <<>>
    THEN /\ pc' = "done"
         /\ stack' = <<>>
         /\ res' = standardized_record(
                       resolve_approach(req.approach),
                       coerce_exposure_type(req.exposure_type),
                       coerce_rating_bucket(req.rating_bucket),
                       normalize_jurisdiction(req.jurisdiction),
                       floor_regime_of(normalize_jurisdiction(req.jurisdiction),
                                       req.apply_bcbs_baseline_floors),
                       normalize_collateral_type(req.collateral_type),
                       req, value[1], value[2])
         /\ exc' = ""
         /\ UNCHANGED req
    ELSE /\ stack' = [callers EXCEPT ![Len(callers)].cp_rw = Some(value[1])]
         /\ UNCHANGED <<pc, req, res, exc>>

(* calculate_loan_capital, lines 163-171: the Basel III Standardized branch
   calls the resolver *)
EnterResolver ==
    /\ pc = "called"
    /\ ApproachMethod(resolve_approach(req.approach)) = "standardized"
    /\ ApproachRegime(resolve_approach(req.approach)) = "basel3"
    /\ pc' = "resolving"
    /\ stack' = <<GetFrame(coerce_exposure_type(req.exposure_type),
                           coerce_rating_bucket(req.rating_bucket),
                           Some(req.ead), req.property_value,
                           req.property_income_dependent,
                           IF req.counterparty_type.tag # "none"
                           THEN coerce_exposure_type(req.counterparty_type)
                           ELSE "CORPORATE")>>
    /\ UNCHANGED <<req, res, exc>>

(* get_standardized_risk_weight_basel3, lines 445-467 and 479: an exposure
   type other than CRE returns its weight without a call *)
ResolveFlat ==
    /\ pc = "resolving"
    /\ Top.fn = "get"
    /\ Top.exposure_type # "COMMERCIAL_REAL_ESTATE"
    /\ Deliver(get_standardized_risk_weight_basel3(
                   Top.exposure_type, Top.rating_bucket, Top.ead,
                   Top.property_value, Top.property_income_dependent,
                   Top.counterparty_type),
               Callers(1))

(* get_standardized_risk_weight_basel3, lines 469-477: CRE calls the CRE
   engine, a missing counterparty type defaulted to Corporate *)
EnterCreEngine ==
    /\ pc = "resolving"
    /\ Top.fn = "get"
    /\ Top.exposure_type = "COMMERCIAL_REAL_ESTATE"
    /\ Len(stack) < MaxStack
    /\ stack' = Append(stack,
                       CreFrame(Top.rating_bucket, Top.ead, Top.property_value,
                                Top.property_income_dependent,
                                IF Top.counterparty_type # NoneEnum
                                THEN Top.counterparty_type ELSE "CORPORATE"))
    /\ UNCHANGED <<pc, req, res, exc>>

(* _basel3_cre_risk_weight_with_details, lines 494-501: the nested
   resolution of the counterparty *)
ResolveCounterparty ==
    /\ pc = "resolving"
    /\ Top.fn = "cre"
    /\ Top.cp_rw = None
    /\ Len(stack) < MaxStack
    /\ stack' = Append(stack,
                       GetFrame(Top.counterparty_type, Top.rating_bucket, None,
                                None, FALSE,
                                NestedCounterparty(Top.counterparty_type)))
    /\ UNCHANGED <<pc, req, res, exc>>

(* _basel3_cre_risk_weight_with_details, lines 502-558: the CRE rule returns,
   and with it the "get" frame that called the engine (line 471) *)
CreReturn ==
    /\ pc = "resolving"
    /\ Top.fn = "cre"
    /\ Top.cp_rw # None
    /\ Deliver(basel3_cre_rule(Top.rating_bucket, Top.ead, Top.property_value,
                               Top.property_income_dependent,
                               Top.counterparty_type, The(Top.cp_rw)),
               Callers(2))

(* Commercial real estate requests with every counterparty type *)
SubmitCreCounterparty ==
    /\ pc = "idle"
    /\ \E rb \in {EnumIn("AAA_AA"), EnumIn("BELOW_B"), NoneIn},
          ead \in {3, MaxEad}, pv \in {None, Some(5)}, dep \in BOOLEAN,
          cp \in {EnumIn(e) : e \in ExposureType}
                  \cup {NoneIn, StrIn(<<"H","e","d","g","e"," ","F","u","n","d">>)} :
           Call([DefaultRequest EXCEPT
                    !.approach = EnumIn("BASEL_III_STANDARDIZED"),
                    !.exposure_type = EnumIn("COMMERCIAL_REAL_ESTATE"),
                    !.rating_bucket = rb, !.ead = ead, !.property_value = pv,
                    !.property_income_dependent = dep, !.counterparty_type = cp])

ResolverStep ==
    \/ EnterResolver
    \/ ResolveFlat
    \/ EnterCreEngine
    \/ ResolveCounterparty
    \/ CreReturn

NextCre ==
    \/ SubmitCreCounterparty
    \/ ResolverStep
    \/ Return

(* A call that has started keeps running: Python executes it to its end *)
SpecCre == Init /\ [][NextCre]_vars /\ WF_vars(ResolverStep)

-----------------------------------------------------------------------------
(* Properties of the returned record.  A call has returned when pc = "done";
   exc = "" when it returned a record and names the exception otherwise. *)

ResolvedApproach == resolve_approach(req.approach)

RequestExposureType == coerce_exposure_type(req.exposure_type)

RequestRatingBucket == coerce_rating_bucket(req.rating_bucket)

CoveredIrbExposureTypes == {"CORPORATE", "BANK", "SOVEREIGN_CENTRAL_BANK"}

IrbApproaches ==
    {"BASEL_II_IRB", "BASEL_III_IRB_FOUNDATION", "BASEL_III_IRB_ADVANCED"}

(* C1: in every returned record that carries an RWA (Standardized, Basel II
   IRB, Basel III IRB after the output floor), capital_required equals that
   record's RWA times that record's capital_ratio, the capital ratio of the
   request. *)
C1_CapitalRequiredIsRwaTimesRatio ==
    (pc = "done" /\ "RWA" \in DOMAIN res) =>
        /\ {"capital_required", "capital_ratio"} \subseteq DOMAIN res
        /\ res.capital_ratio = req.capital_ratio
        /\ res.capital_required = res.RWA * res.capital_ratio

(* C1 happens: a Basel III IRB record whose RWA the output floor has
   overwritten, with a positive capital requirement at a 10% ratio *)
C1_Witness ==
    /\ pc = "done"
    /\ "output_floor" \in DOMAIN res
    /\ res.output_floor.binding
    /\ res.RWA > res.output_floor.rwa_irb_pre_floor
    /\ res.capital_ratio = 10
    /\ res.capital_required > 0

(* C2: for every Basel III IRB calculation that returns a computed record,
   the top-level RWA is max(pre-floor IRB RWA, 0.725 x EAD x Basel III
   Standardized risk weight of the exposure), the pre-floor RWA is
   12.5 x K_adjusted x EAD, and so the RWA is at least 72.5% of the Basel III
   Standardized RWA.  0.725 = 29/40. *)
C2_OutputFloorIsMax ==
    (/\ pc = "done"
     /\ exc = ""
     /\ ResolvedApproach \in {"BASEL_III_IRB_FOUNDATION", "BASEL_III_IRB_ADVANCED"}
     /\ RequestExposureType \in CoveredIrbExposureTypes) =>
        LET std_rw == get_standardized_risk_weight_basel3(
                          RequestExposureType, RequestRatingBucket,
                          Some(req.ead), req.property_value,
                          req.property_income_dependent, "CORPORATE")[1]
            rwa_std == req.ead * std_rw
        IN /\ {"RWA", "K_adjusted", "output_floor"} \subseteq DOMAIN res
           /\ (29 * rwa_std) % 40 = 0
           /\ res.output_floor.rwa_irb_pre_floor
                  = ((1250 * res.K_adjusted) \div 1000) * req.ead
           /\ res.RWA = Max(res.output_floor.rwa_irb_pre_floor,
                            (29 * rwa_std) \div 40)
           /\ 40 * res.RWA >= 29 * rwa_std

(* C2 happens: a Basel III IRB Advanced record above a positive floor *)
C2_Witness ==
    /\ pc = "done"
    /\ "output_floor" \in DOMAIN res
    /\ res.approach_enum = "BASEL_III_IRB_ADVANCED"
    /\ res.output_floor.floor_rwa > 0
    /\ res.RWA > res.output_floor.floor_rwa

(* C3: in every output_floor record, binding is true exactly when
   rwa_final_post_floor exceeds rwa_irb_pre_floor, that is exactly when the
   floor changed the RWA; when the IRB RWA is at or above the floor RWA,
   binding is false and the top-level RWA is the pre-floor IRB RWA. *)
C3_BindingIffFloorChangedRwa ==
    (pc = "done" /\ "output_floor" \in DOMAIN res) =>
        LET f == res.output_floor IN
        /\ res.RWA = f.rwa_final_post_floor
        /\ f.binding <=> (f.rwa_final_post_floor > f.rwa_irb_pre_floor)
        /\ f.binding <=> (res.RWA # f.rwa_irb_pre_floor)
        /\ (f.rwa_irb_pre_floor >= f.floor_rwa) =>
               (~f.binding /\ res.RWA = f.rwa_irb_pre_floor)

(* C3 happens: a Basel III IRB Foundation record whose IRB RWA is exactly
   the floor RWA or above it, so the floor does not bind *)
C3_Witness ==
    /\ pc = "done"
    /\ "output_floor" \in DOMAIN res
    /\ res.approach_enum = "BASEL_III_IRB_FOUNDATION"
    /\ res.output_floor.rwa_irb_pre_floor >= res.output_floor.floor_rwa
    /\ res.output_floor.floor_rwa > 0
    /\ ~res.output_floor.binding

(* C4: for each IRB approach and every exposure type other than Corporate,
   Bank or Sovereign (Retail, Residential Mortgage, Commercial Real Estate,
   Other, unrecognized or missing), the call returns the stub: the approach
   name and label and the not-implemented note, and no RWA, no
   capital_required and no output_floor. *)
C4_StubForUncoveredIrbExposure ==
    (/\ pc = "done"
     /\ ResolvedApproach \in IrbApproaches
     /\ RequestExposureType \notin CoveredIrbExposureTypes) =>
        /\ exc = ""
        /\ {"approach_enum", "approach_label", "notes"} \subseteq DOMAIN res
        /\ res.approach_enum = ResolvedApproach
        /\ res.approach_label = ApproachLabel(ResolvedApproach)
        /\ res.notes = "IRB stub - asset class not yet implemented."
        /\ DOMAIN res \cap {"RWA", "capital_required", "output_floor"} = {}

(* C4 happens: Basel III IRB Advanced on an exposure type that cannot be
   coerced *)
C4_Witness ==
    /\ pc = "done"
    /\ req.approach = EnumIn("BASEL_III_IRB_ADVANCED")
    /\ req.exposure_type = StrIn(<<"H","e","d","g","e"," ","F","u","n","d">>)
    /\ "notes" \in DOMAIN res

(* C5: every returned record, on every path (Standardized, computed IRB,
   IRB on an exposure type that is not covered), contains the resolved
   approach identifiers, the EAD, the RWA, the capital required and the
   capital ratio. *)
C5_EveryRecordHasCoreFields ==
    (pc = "done" /\ exc = "") =>
        {"approach_enum", "approach_label", "EAD", "RWA", "capital_required",
         "capital_ratio"} \subseteq DOMAIN res

(* C5 as the program has it: every returned record contains the resolved
   approach identifiers; the Standardized and the computed IRB records also
   contain the EAD, the RWA, the capital required and the capital ratio; the
   record for IRB on an exposure type that is not covered contains the
   approach identifiers and a note and nothing else. *)
C5_CoreFieldsByPath ==
    (pc = "done" /\ exc = "") =>
        /\ {"approach_enum", "approach_label"} \subseteq DOMAIN res
        /\ res.approach_enum = ResolvedApproach
        /\ res.approach_label = ApproachLabel(ResolvedApproach)
        /\ IF /\ ResolvedApproach \in IrbApproaches
              /\ RequestExposureType \notin CoveredIrbExposureTypes
           THEN DOMAIN res = {"approach_enum", "approach_label", "notes"}
           ELSE /\ {"EAD", "RWA", "capital_required", "capital_ratio"}
                       \subseteq DOMAIN res
                /\ res.EAD = req.ead
                /\ res.capital_ratio = req.capital_ratio

(* C5 happens: Basel II IRB on a Retail exposure returns a record without
   EAD, RWA, capital required and capital ratio *)
C5_Witness ==
    /\ pc = "done"
    /\ exc = ""
    /\ req.approach = EnumIn("BASEL_II_IRB")
    /\ req.exposure_type = EnumIn("RETAIL")
    /\ "approach_enum" \in DOMAIN res
    /\ DOMAIN res \cap {"EAD", "RWA", "capital_required", "capital_ratio"} = {}

(* C6: the call never raises: it returns the {"error": ...} record exactly
   when the resolved approach's method is neither standardized nor irb, and
   a result record for every other input. *)
C6_NeverRaises ==
    pc = "done" =>
        /\ exc = ""
        /\ ("error" \in DOMAIN res)
               <=> (ApproachMethod(ResolvedApproach) \notin {"standardized", "irb"})

(* The approach each approach input of the model resolves to under the
   stated policy: the identifier, else the label ignoring case, else the
   substring heuristic, else Basel II Standardized *)
ExpectedApproach(a) ==
    IF a.tag = "enum" THEN a.e
    ELSE IF a.tag = "none" THEN "BASEL_II_STANDARDIZED"
    ELSE CASE a.s = <<"B","A","S","E","L","_","I","I","I","_","S","T","A","N","D","A","R","D","I","Z","E","D">> -> "BASEL_III_STANDARDIZED"
           [] a.s = <<" "," ","B","A","S","E","L","_","I","I","_","I","R","B"," ">> -> "BASEL_II_IRB"
           [] a.s = <<"B","A","S","E","L","_","I","I","I","_","I","R","B">> -> "BASEL_II_IRB"
           [] a.s = <<"b","a","s","e","l"," ","i","i","i"," ","-"," ","i","r","b"," ","(","a","d","v","a","n","c","e","d",")"," ","+"," ","o","u","t","p","u","t"," ","f","l","o","o","r">>
                  -> "BASEL_III_IRB_ADVANCED"
           [] a.s = <<"B","a","s","e","l"," ","I","I","I"," ","-"," ","S","t","a","n","d","a","r","d","i","z","e","d">> -> "BASEL_III_STANDARDIZED"
           [] a.s = <<"B","A","S","E","L"," ","I","I"," ","-"," ","I","R","B"," ","(","F","O","U","N","D","A","T","I","O","N",")">> -> "BASEL_II_IRB"
           [] a.s = <<"B","a","s","e","l"," ","I","I","I"," ","S","t","a","n","d","a","r","d","i","s","e","d">> -> "BASEL_III_STANDARDIZED"
           [] a.s = <<"B","a","s","e","l"," ","I","I","I"," ","A","d","v","a","n","c","e","d"," ","I","R","B">> -> "BASEL_III_IRB_ADVANCED"
           [] a.s = <<"b","a","s","e","l"," ","i","i","i"," ","i","r","b">> -> "BASEL_III_IRB_FOUNDATION"
           [] a.s = <<"B","a","s","e","l"," ","I","I"," ","S","t","a","n","d","a","r","d","i","z","e","d">> -> "BASEL_II_STANDARDIZED"
           [] a.s = <<"I","R","B">> -> "BASEL_II_IRB"
           [] a.s = <<"b","a","s","e","l","_","i","i","i","_","s","t","a","n","d","a","r","d","i","z","e","d">> -> "BASEL_II_STANDARDIZED"
           [] a.s = <<"B","a","s","e","l"," ","I","I","I">> -> "BASEL_II_STANDARDIZED"
           [] a.s = <<"f","o","o">> -> "BASEL_II_STANDARDIZED"
           [] a.s = <<>> -> "BASEL_II_STANDARDIZED"

(* C7: an approach input that is an Approach member, a string or None
   resolves to exactly one of the five approaches: the exact identifier,
   else the label ignoring case, else the substring heuristic (text with
   both "basel iii" and "standard" gives Basel III Standardized), else
   Basel II Standardized. *)
C7_ApproachResolution ==
    (pc = "done" /\ exc = "") =>
        /\ res.approach_enum \in Approach
        /\ res.approach_enum = ExpectedApproach(req.approach)
        /\ res.approach_label = ApproachLabel(res.approach_enum)
        /\ (req.approach.tag = "str"
            /\ Contains(Lower(req.approach.s), <<"b","a","s","e","l"," ","i","i","i">>)
            /\ Contains(Lower(req.approach.s), <<"s","t","a","n","d","a","r","d">>))
               => res.approach_enum = "BASEL_III_STANDARDIZED"

(* C7 happens: a text that is no identifier and no label is resolved by the
   heuristic *)
C7_Witness ==
    /\ pc = "done"
    /\ req.approach = StrIn(<<"B","a","s","e","l"," ","I","I","I"," ","A","d","v","a","n","c","e","d"," ","I","R","B">>)
    /\ res.approach_enum = "BASEL_III_IRB_ADVANCED"

(* C8: under either Standardized regime the call returns a record; an
   exposure type that cannot be coerced gets the weight of Other, 100%; a
   rating bucket that cannot be coerced gets the weight of Unrated, 100%
   for Corporate under Basel II. *)
C8_UncoercibleInputsFallBack ==
    (pc = "done" /\ ApproachMethod(ResolvedApproach) = "standardized") =>
        /\ exc = ""
        /\ "risk_weight" \in DOMAIN res
        /\ RequestExposureType = NoneEnum =>
               /\ res.risk_weight = Pct(100)
               /\ res.risk_weight =
                      calculate_loan_capital(
                          [req EXCEPT !.exposure_type = EnumIn("OTHER")]).risk_weight
        /\ RequestRatingBucket = NoneEnum =>
               res.risk_weight =
                   calculate_loan_capital(
                       [req EXCEPT !.rating_bucket = EnumIn("UNRATED")]).risk_weight
        /\ (/\ RequestRatingBucket = NoneEnum
            /\ RequestExposureType = "CORPORATE"
            /\ ResolvedApproach = "BASEL_II_STANDARDIZED") =>
               res.risk_weight = Pct(100)

(* C8 happens: Basel II Standardized, Corporate, rating bucket "XYZ" *)
C8_Witness ==
    /\ pc = "done"
    /\ req.approach = EnumIn("BASEL_II_STANDARDIZED")
    /\ req.exposure_type = EnumIn("CORPORATE")
    /\ req.rating_bucket = StrIn(<<"X","Y","Z">>)
    /\ res.risk_weight = Pct(100)

(* The rates, decimals of [0, 1], on which idempotence is evaluated *)
UnitRates ==
    {0, 1, 10, PdZeroDenominator, RateOne \div 100, (45 * RateOne) \div 100,
     RateOne - 1, RateOne}

RateDefaults ==
    {RateOne \div 100, (40 * RateOne) \div 100, (45 * RateOne) \div 100, RateOne}

(* C9: with a default d of (0, 1], rate normalization maps a missing or
   <= 0 input to d, an input above 1 to input/100 and any other input to
   itself; 45 and 0.45 both give 0.45; normalizing twice equals normalizing
   once on [0, 1].  The PD of a computed IRB record is normalized with
   d = 0.01. *)
C9_NormalizeRate ==
    (pc = "done" /\ "pd_input" \in DOMAIN res) =>
        LET d == RateOne \div 100
            x == req.pd
            y == res.pd_input
        IN /\ (x = None \/ The(x) <= 0) => y = d
           /\ (x # None /\ The(x) > RateOne) => 100 * y = The(x)
           /\ (x # None /\ The(x) > 0 /\ The(x) <= RateOne) => y = The(x)
           /\ x \in {Some(45 * RateOne), Some((45 * RateOne) \div 100)}
                  => y = (45 * RateOne) \div 100
           /\ normalize_rate(Some(y), d) = y
           /\ \A dd \in RateDefaults :
                  /\ normalize_rate(None, dd) = dd
                  /\ normalize_rate(Some(45 * RateOne), dd) = (45 * RateOne) \div 100
                  /\ normalize_rate(Some((45 * RateOne) \div 100), dd)
                         = (45 * RateOne) \div 100
                  /\ \A u \in UnitRates :
                         /\ normalize_rate(Some(u), dd) = IF u = 0 THEN dd ELSE u
                         /\ normalize_rate(Some(normalize_rate(Some(u), dd)), dd)
                                = normalize_rate(Some(u), dd)

(* C9 happens: a PD given as the percentage 45 *)
C9_Witness ==
    /\ pc = "done"
    /\ req.pd = Some(45 * RateOne)
    /\ "pd_input" \in DOMAIN res
    /\ res.pd_input = (45 * RateOne) \div 100

(* The Corporate risk weights, in percent, by regime and rating bucket *)
CorporateWeightPct(regime, rb) ==
    IF regime = "basel2" THEN
        CASE rb = "AAA_AA" -> 20
          [] rb = "A" -> 50
          [] rb = "BBB" -> 100
          [] rb = "BB_B" -> 100
          [] rb = "BELOW_B" -> 150
          [] rb = "UNRATED" -> 100
    ELSE
        CASE rb = "AAA_AA" -> 75
          [] rb = "A" -> 75
          [] rb = "BBB" -> 75
          [] rb = "BB_B" -> 100
          [] rb = "BELOW_B" -> 150
          [] rb = "UNRATED" -> 100

(* C10: a Corporate exposure has risk weight 20/50/100/100/150/100%
   (AAA-AA, A, BBB, BB-B, Below B, Unrated) under Basel II Standardized and
   75/75/75/100/150/100% under Basel III Standardized, and the Standardized
   RWA is EAD times that weight. *)
C10_CorporateStandardizedTable ==
    (/\ pc = "done"
     /\ ApproachMethod(ResolvedApproach) = "standardized"
     /\ RequestExposureType = "CORPORATE"
     /\ RequestRatingBucket \in RatingBucket) =>
        /\ 100 * res.risk_weight
               = FOne * CorporateWeightPct(ApproachRegime(ResolvedApproach),
                                           RequestRatingBucket)
        /\ 100 * res.RWA
               = FOne * req.ead
                   * CorporateWeightPct(ApproachRegime(ResolvedApproach),
                                        RequestRatingBucket)
        /\ res.EAD = req.ead
        /\ res.RWA = res.EAD * res.risk_weight

(* C10 happens: Corporate, Basel III Standardized, BBB: RWA = 0.75 x EAD *)
C10_Witness ==
    /\ pc = "done"
    /\ req.approach = EnumIn("BASEL_III_STANDARDIZED")
    /\ req.exposure_type = EnumIn("CORPORATE")
    /\ req.rating_bucket = EnumIn("BBB")
    /\ req.ead = MaxEad
    /\ 4 * res.RWA = 3 * MaxEad * FOne

(* The Sovereign and the Bank risk weights of the Basel II table, in
   percent, by rating bucket *)
SovereignWeightPct(rb) ==
    CASE rb = "AAA_AA" -> 0
      [] rb = "A" -> 20
      [] rb = "BBB" -> 50
      [] rb = "BB_B" -> 100
      [] rb = "BELOW_B" -> 150
      [] rb = "UNRATED" -> 100

BankWeightPct(rb) ==
    CASE rb = "AAA_AA" -> 20
      [] rb = "A" -> 50
      [] rb = "BBB" -> 100
      [] rb = "BB_B" -> 100
      [] rb = "BELOW_B" -> 150
      [] rb = "UNRATED" -> 100

(* The risk weight the same request gets under the given approach *)
RiskWeightUnder(approach_enum) ==
    calculate_loan_capital([req EXCEPT !.approach = EnumIn(approach_enum)]).risk_weight

(* C11: a Sovereign/Central Bank exposure has risk weight
   0/20/50/100/150/100% (AAA-AA, A, BBB, BB-B, Below B, Unrated) under
   Basel II Standardized, and the same weights under Basel III
   Standardized. *)
C11_SovereignStandardizedTable ==
    (/\ pc = "done"
     /\ ApproachMethod(ResolvedApproach) = "standardized"
     /\ RequestExposureType = "SOVEREIGN_CENTRAL_BANK"
     /\ RequestRatingBucket \in RatingBucket) =>
        /\ 100 * res.risk_weight = FOne * SovereignWeightPct(RequestRatingBucket)
        /\ RiskWeightUnder("BASEL_III_STANDARDIZED")
               = RiskWeightUnder("BASEL_II_STANDARDIZED")

(* C12: a Bank exposure has risk weight 20/50/100/100/150/100% (AAA-AA, A,
   BBB, BB-B, Below B, Unrated) under Basel II Standardized, and for every
   rating bucket the Basel III Standardized Bank weight equals the Basel II
   Standardized Bank weight. *)
C12_BankStandardizedTable ==
    (/\ pc = "done"
     /\ ApproachMethod(ResolvedApproach) = "standardized"
     /\ RequestExposureType = "BANK"
     /\ RequestRatingBucket \in RatingBucket) =>
        /\ ResolvedApproach = "BASEL_II_STANDARDIZED" =>
               100 * res.risk_weight = FOne * BankWeightPct(RequestRatingBucket)
        /\ RiskWeightUnder("BASEL_III_STANDARDIZED")
               = RiskWeightUnder("BASEL_II_STANDARDIZED")

(* C13: under both Basel II and Basel III Standardized, whatever the rating
   bucket, a Retail exposure gets 75% when is_regulatory_retail is set and
   100% otherwise, and a Residential Mortgage exposure gets 35% when
   is_prudent_mortgage is set and 100% otherwise. *)
C13_RetailAndMortgageWeights ==
    (pc = "done" /\ ApproachMethod(ResolvedApproach) = "standardized") =>
        /\ RequestExposureType = "RETAIL" =>
               res.risk_weight =
                   IF req.is_regulatory_retail THEN Pct(75) ELSE Pct(100)
        /\ RequestExposureType = "RESIDENTIAL_MORTGAGE" =>
               res.risk_weight =
                   IF req.is_prudent_mortgage THEN Pct(35) ELSE Pct(100)

IsCreStandardized ==
    /\ pc = "done"
    /\ ResolvedApproach = "BASEL_III_STANDARDIZED"
    /\ RequestExposureType = "COMMERCIAL_REAL_ESTATE"

(* LTV = EAD / property value is known when the property value is given
   and positive; the comparisons of EAD / property value with 60% and 80% *)
LtvKnown == req.property_value # None /\ The(req.property_value) > 0

LtvAtMost60 == 5 * req.ead <= 3 * The(req.property_value)

LtvAtMost80 == 5 * req.ead <= 4 * The(req.property_value)

(* C14: a Commercial Real Estate exposure under Basel III Standardized,
   with LTV unknown when the property value is missing or <= 0, gets, if
   income-dependent, 70% for LTV <= 60%, 90% for 60% < LTV <= 80% and 110%
   for LTV > 80% or unknown; otherwise min(60%, counterparty RW) for
   LTV <= 60%, the counterparty RW for LTV > 60% and
   max(counterparty RW, 100%) for LTV unknown. *)
C14_CreRiskWeight ==
    IsCreStandardized =>
        /\ "cre_details" \in DOMAIN res
        /\ (res.cre_details.ltv = None) <=> ~LtvKnown
        /\ (res.LTV = None) <=> ~LtvKnown
        /\ LtvKnown =>
               LET ltv == The(res.cre_details.ltv)
                   pv == The(req.property_value)
               IN /\ ltv * pv <= req.ead * FOne
                  /\ req.ead * FOne < (ltv + 1) * pv
        /\ res.risk_weight =
               LET cp_rw == res.cre_details.counterparty_rw IN
               IF req.property_income_dependent THEN
                   IF ~LtvKnown THEN Pct(110)
                   ELSE IF LtvAtMost60 THEN Pct(70)
                   ELSE IF LtvAtMost80 THEN Pct(90)
                   ELSE Pct(110)
               ELSE
                   IF ~LtvKnown THEN (IF cp_rw > Pct(100) THEN cp_rw ELSE Pct(100))
                   ELSE IF LtvAtMost60 THEN (IF cp_rw < Pct(60) THEN cp_rw ELSE Pct(60))
                   ELSE cp_rw

(* C14 happens: general CRE at an LTV of at most 60% with a counterparty
   weight below 60% *)
C14_Witness ==
    /\ IsCreStandardized
    /\ ~req.property_income_dependent
    /\ LtvKnown
    /\ LtvAtMost60
    /\ req.ead > 0
    /\ res.cre_details.counterparty_rw = Pct(20)
    /\ res.risk_weight = Pct(20)

(* C15: in the general (not income-dependent) CRE branch, with the
   counterparty type and the rating bucket fixed, the risk weight does not
   decrease when the LTV grows: for every other EAD and property value of
   the requests whose LTV is defined and at least the LTV of this request,
   the risk weight is at least the risk weight of this request. *)
C15_CreMonotonicInLtv ==
    (IsCreStandardized /\ ~req.property_income_dependent /\ LtvKnown) =>
        \A ead2 \in EADs, pv2 \in PropertyValues :
            (/\ pv2 # None
             /\ The(pv2) > 0
             /\ ead2 * The(req.property_value) >= req.ead * The(pv2)) =>
                calculate_loan_capital(
                    [req EXCEPT !.ead = ead2, !.property_value = pv2]).risk_weight
                    >= res.risk_weight

(* C15 happens: 60% at an LTV of at most 60%, and 100% for the same
   counterparty at a higher LTV *)
C15_Witness ==
    /\ IsCreStandardized
    /\ ~req.property_income_dependent
    /\ LtvKnown
    /\ LtvAtMost60
    /\ res.risk_weight = Pct(60)
    /\ calculate_loan_capital(
           [req EXCEPT !.ead = MaxEad, !.property_value = Some(5)]).risk_weight
           = Pct(100)

(* C16: every CRE resolution under Basel III Standardized returns a detail
   record with the asset-class tag, the income-dependence flag, the
   counterparty type and its risk weight, the LTV, the LTV bucket label, the
   rule path and the applied risk weight; the bucket label, the rule path
   and rw_applied are not None, rw_applied is the risk weight returned, and
   the Standardized record carries the detail record as cre_details. *)
C16_CreDetailRecord ==
    IsCreStandardized =>
        /\ "cre_details" \in DOMAIN res
        /\ DOMAIN res.cre_details =
               {"asset_class", "property_income_dependent", "counterparty_type",
                "counterparty_rw", "ltv", "ltv_bucket", "rule_path", "rw_applied"}
        /\ res.cre_details.asset_class = "CRE"
        /\ res.cre_details.property_income_dependent = req.property_income_dependent
        /\ res.cre_details.counterparty_type \in ExposureType
        /\ res.cre_details.counterparty_rw > 0
        /\ res.cre_details.ltv_bucket # None
        /\ res.cre_details.rule_path # None
        /\ res.cre_details.rw_applied = Some(res.risk_weight)
        /\ res.cre_details =
               The(get_standardized_risk_weight_basel3(
                       RequestExposureType, RequestRatingBucket, Some(req.ead),
                       req.property_value, req.property_income_dependent,
                       res.cre_details.counterparty_type)[2])

(* C16 happens: income-dependent CRE with no property value *)
C16_Witness ==
    /\ IsCreStandardized
    /\ req.property_income_dependent
    /\ req.property_value = None
    /\ res.cre_details.ltv = None
    /\ res.cre_details.ltv_bucket = Some("Unknown (no property_value)")
    /\ res.cre_details.rw_applied = Some(Pct(110))

(* C17: in the CRE rule engine the counterparty risk weight is the Basel
   III Standardized weight of the counterparty's exposure type at the
   exposure's rating bucket, and for every counterparty that is not
   Corporate or Bank, a counterparty-type input that cannot be coerced
   included, it is at least 100%. *)
C17_CounterpartyRiskWeight ==
    (IsCreStandardized /\ req.counterparty_type.tag # "none") =>
        LET cp == coerce_exposure_type(req.counterparty_type) IN
        /\ res.cre_details.counterparty_rw =
               get_standardized_risk_weight_basel3(
                   cp, RequestRatingBucket, None, None, FALSE, NoneEnum)[1]
        /\ cp \notin {"CORPORATE", "BANK"} =>
               res.cre_details.counterparty_rw >= Pct(100)

(* The jurisdiction of each jurisdiction input of the requests, compared
   ignoring case and surrounding blanks; anything but Canada is US *)
ExpectedJurisdiction(j) ==
    IF j.tag = "str" /\ j.s \in {<<"C","A","N">>, <<" ","c","a","n"," ">>} THEN "CAN" ELSE "US"

(* C18: the floor regime depends on the jurisdiction and the flag only:
   Canada gives OSFI whatever the flag; US gives BCBS when
   apply_bcbs_baseline_floors is set and NONE otherwise; the jurisdiction
   is compared ignoring case and surrounding blanks, and any other or
   missing jurisdiction is treated as US. *)
C18_FloorRegime ==
    (pc = "done" /\ exc = "" /\ "floor_regime" \in DOMAIN res) =>
        /\ res.jurisdiction = ExpectedJurisdiction(req.jurisdiction)
        /\ res.floor_regime =
               IF ExpectedJurisdiction(req.jurisdiction) = "CAN" THEN "OSFI"
               ELSE IF req.apply_bcbs_baseline_floors THEN "BCBS"
               ELSE "NONE"

(* C18 happens: Canada, written in lower case between blanks, without the
   flag *)
C18_Witness ==
    /\ pc = "done"
    /\ req.jurisdiction = StrIn(<<" ","c","a","n"," ">>)
    /\ ~req.apply_bcbs_baseline_floors
    /\ "floor_regime" \in DOMAIN res
    /\ res.jurisdiction = "CAN"
    /\ res.floor_regime = "OSFI"

(* C19: in every computed IRB record the PD floor is 0.05% for Corporate
   and Bank when the floor regime is OSFI or BCBS, there is no PD floor for
   Sovereign and none when the floor regime is NONE, and pd_used is the
   larger of the normalized PD input and the PD floor. *)
C19_PdFloor ==
    (pc = "done" /\ "pd_used" \in DOMAIN res) =>
        LET floor == IF /\ res.floor_regime \in {"OSFI", "BCBS"}
                        /\ RequestExposureType \in {"CORPORATE", "BANK"}
                     THEN (5 * RateOne) \div 10000
                     ELSE 0
        IN /\ res.pd_floor = IF floor > 0 THEN Some(floor) ELSE None
           /\ res.pd_used = IF res.pd_input < floor THEN floor ELSE res.pd_input

(* The LGD floor, in percent, of each collateral type input of the
   requests *)
ExpectedLgdFloorPct(c) ==
    IF c.tag # "str" THEN 25
    ELSE CASE c.s = <<"f","i","n","a","n","c","i","a","l">> -> 0
           [] c.s = <<"r","e","c","e","i","v","a","b","l","e","s">> -> 10
           [] c.s = <<"r","e","a","l","_","e","s","t","a","t","e">> -> 10
           [] c.s = <<"o","t","h","e","r","_","p","h","y","s","i","c","a","l">> -> 15
           [] c.s = <<"i","n","t","a","n","g","i","b","l","e","s">> -> 25
           [] OTHER -> 25

(* C20: under Basel III IRB Advanced with bank-estimated LGD, when the
   floor regime is OSFI or BCBS and the asset class is not Sovereign the
   LGD floor is 0% for financial collateral, 10% for receivables, 10% for
   real estate, 15% for other physical collateral, 25% for intangibles and
   25% for a missing or unrecognized collateral type, lgd_used is the
   larger of the normalized LGD input and the floor, and lgd_floor_applied
   is true exactly when the normalized input is below the floor; when the
   regime is NONE or the asset class is Sovereign no floor is applied and
   lgd_used is the normalized input. *)
C20_LgdFloor ==
    (/\ pc = "done"
     /\ ResolvedApproach = "BASEL_III_IRB_ADVANCED"
     /\ "lgd_mode" \in DOMAIN res
     /\ res.lgd_mode = "bank_estimated") =>
        LET floor == (ExpectedLgdFloorPct(req.collateral_type) * RateOne) \div 100
            lgd_norm == IF req.lgd = None \/ The(req.lgd) <= 0 THEN res.lgd_default
                        ELSE IF The(req.lgd) > RateOne THEN The(req.lgd) \div 100
                        ELSE The(req.lgd)
        IN /\ res.lgd_input = lgd_norm
           /\ IF /\ res.floor_regime \in {"OSFI", "BCBS"}
                 /\ RequestExposureType # "SOVEREIGN_CENTRAL_BANK"
              THEN /\ res.lgd_floor_value = Some(floor)
                   /\ res.lgd_used = IF lgd_norm < floor THEN floor ELSE lgd_norm
                   /\ res.lgd_floor_applied <=> (lgd_norm < floor)
              ELSE /\ res.lgd_floor_value = None
                   /\ ~res.lgd_floor_applied
                   /\ res.lgd_used = lgd_norm

(* C20 happens: an LGD of 5% on receivables in Canada is raised to 10% *)
C20_Witness ==
    /\ pc = "done"
    /\ req.approach = EnumIn("BASEL_III_IRB_ADVANCED")
    /\ req.exposure_type = EnumIn("CORPORATE")
    /\ req.collateral_type = StrIn(<<"r","e","c","e","i","v","a","b","l","e","s">>)
    /\ req.lgd = Some((5 * RateOne) \div 100)
    /\ "lgd_used" \in DOMAIN res
    /\ res.floor_regime = "OSFI"
    /\ res.lgd_floor_applied
    /\ res.lgd_used = (10 * RateOne) \div 100

(* The supervisory LGD default of an approach and a covered exposure type *)
SupervisoryLgd(a, et) ==
    IF a = "BASEL_II_IRB" THEN (45 * RateOne) \div 100
    ELSE IF et = "CORPORATE" THEN (40 * RateOne) \div 100
    ELSE (45 * RateOne) \div 100

BankEstimatedLgdCase ==
    /\ ResolvedApproach = "BASEL_III_IRB_ADVANCED"
    /\ RequestExposureType \in {"CORPORATE", "SOVEREIGN_CENTRAL_BANK"}

(* C21: in every computed IRB record lgd_mode is bank_estimated exactly
   when the approach is Basel III IRB Advanced and the asset class is
   Corporate or Sovereign; in every other case (Basel II IRB, Basel III IRB
   Foundation, Bank under Advanced) lgd_mode is supervisory, lgd_used is
   the supervisory default whatever LGD was supplied, lgd_floor_applied is
   false and no LGD floor value is reported, for every jurisdiction, floor
   flag and collateral type. *)
C21_LgdMode ==
    (pc = "done" /\ "lgd_mode" \in DOMAIN res) =>
        /\ (res.lgd_mode = "bank_estimated") <=> BankEstimatedLgdCase
        /\ ~BankEstimatedLgdCase =>
               /\ res.lgd_mode = "supervisory"
               /\ res.lgd_used = SupervisoryLgd(ResolvedApproach, RequestExposureType)
               /\ ~res.lgd_floor_applied
               /\ res.lgd_floor_value = None

(* C21 happens: a Bank exposure under Advanced in Canada, on receivables,
   with a supplied LGD of 5%, is given the supervisory 45% and no floor *)
C21_Witness ==
    /\ pc = "done"
    /\ req.approach = EnumIn("BASEL_III_IRB_ADVANCED")
    /\ req.exposure_type = EnumIn("BANK")
    /\ req.collateral_type = StrIn(<<"r","e","c","e","i","v","a","b","l","e","s">>)
    /\ req.lgd = Some((5 * RateOne) \div 100)
    /\ "lgd_mode" \in DOMAIN res
    /\ res.floor_regime = "OSFI"
    /\ res.lgd_mode = "supervisory"
    /\ res.lgd_used = (45 * RateOne) \div 100
    /\ res.lgd_floor_value = None

(* A computed IRB record: the record of the ASRF engine, with or without
   the output floor *)
ComputedIrbRecord == pc = "done" /\ "K_adjusted" \in DOMAIN res

(* The keys of a computed IRB record that hold something other than the
   maturity coefficient b(PD) *)
KeysOfOtherItems ==
    {"approach_enum", "approach_label", "irb_mode", "asset_class",
     "jurisdiction", "floor_regime", "collateral_type", "pd_input", "pd_used",
     "pd_floor", "pd_note", "lgd_input", "lgd_mode", "lgd_used", "lgd_source",
     "lgd_default", "lgd_floor_applied", "lgd_floor_value", "lgd_note",
     "lgd_rule_path", "lgd_floor_policy", "maturity_years",
     "supervisory_correlation_R", "K_unadjusted", "maturity_adjustment_factor",
     "K_adjusted", "irb_scaling_factor", "EAD", "RWA",
     "effective_risk_weight_pct", "capital_ratio", "capital_required",
     "output_floor"}

(* C22: every computed IRB record carries each audit item: the normalized
   PD and the floored PD, the LGD mode and source, the floor-applied flag
   and the floor values, the correlation R, K before and after the maturity
   adjustment, the maturity adjustment factor, the scaling factor, and the
   maturity coefficient b(PD), which has to be under a key that holds none
   of the other items of the record. *)
C22_AuditTrail ==
    ComputedIrbRecord =>
        /\ {"pd_input", "pd_used", "pd_floor", "lgd_mode", "lgd_source",
            "lgd_floor_applied", "lgd_floor_value", "supervisory_correlation_R",
            "K_unadjusted", "K_adjusted", "maturity_adjustment_factor",
            "irb_scaling_factor"} \subseteq DOMAIN res
        /\ DOMAIN res \ KeysOfOtherItems # {}

(* The numerator 1 + (M - 2.5) * b of the maturity adjustment of a computed
   IRB record *)
RecordMaturityNum == MaturityNum(res.maturity_years, AsrfB(res.pd_used))

(* C23: every denominator is guarded.  An IRB call on a covered exposure
   type does not end with a division by zero, and the maturity adjustment
   factor of its record is the numerator over a positive denominator (the
   denominator 1 - 1.5 * b, replaced by 1e-9 when it is not positive), so
   the factor has the sign of the numerator; the effective risk weight is
   None exactly when EAD <= 0; the LTV of a Standardized record is None
   exactly when the property value is missing or <= 0. *)
C23_DenominatorsGuarded ==
    (pc = "done") =>
        /\ exc # "ZeroDivisionError"
        /\ "maturity_adjustment_factor" \in DOMAIN res =>
               /\ RecordMaturityNum > 0 => res.maturity_adjustment_factor > 0
               /\ (res.effective_risk_weight_pct = None) <=> (req.ead <= 0)
        /\ "LTV" \in DOMAIN res =>
               ((res.LTV = None) <=>
                    (req.property_value = None \/ The(req.property_value) <= 0))

(* C24: for every PD in (0, 1], LGD in [0, 1], EAD >= 0 and maturity
   between one and five years, every RWA of the returned record is >= 0:
   the Standardized RWA, the RWA of the ASRF engine under each IRB approach
   (the pre-floor RWA when there is an output floor) and the final RWA after
   the output floor. *)
C24_RwaNonNegative ==
    (/\ pc = "done"
     /\ "RWA" \in DOMAIN res
     /\ req.pd # None /\ The(req.pd) > 0 /\ The(req.pd) <= RateOne
     /\ req.lgd # None /\ The(req.lgd) >= 0 /\ The(req.lgd) <= RateOne
     /\ req.ead >= 0
     /\ req.maturity_months >= 12 /\ req.maturity_months <= 60) =>
        /\ res.RWA >= 0
        /\ "output_floor" \in DOMAIN res =>
               /\ res.output_floor.rwa_irb_pre_floor >= 0
               /\ res.output_floor.rwa_final_post_floor >= 0

Basel3IrbApproaches == {"BASEL_III_IRB_FOUNDATION", "BASEL_III_IRB_ADVANCED"}

(* C25 as stated: for a Basel III IRB approach on a commercial real estate
   exposure the returned record has an output floor, and its output_floor
   record includes the standardized CRE detail record. *)
C25_CreOutputFloor ==
    (/\ pc = "done"
     /\ ResolvedApproach \in Basel3IrbApproaches
     /\ RequestExposureType = "COMMERCIAL_REAL_ESTATE") =>
        /\ "output_floor" \in DOMAIN res
        /\ "standardized_cre_details" \in DOMAIN res.output_floor

(* C25: for a Basel III IRB approach on a commercial real estate exposure
   the call returns the IRB stub, with no output floor and no CRE detail
   record; a record with an output floor is the record of a Corporate, Bank
   or Sovereign exposure, its floor is computed from the Basel III
   Standardized risk weight of that exposure type, and its output_floor
   record includes no standardized CRE detail record. *)
C25_NoOutputFloorForCre ==
    (pc = "done" /\ ResolvedApproach \in Basel3IrbApproaches) =>
        /\ RequestExposureType = "COMMERCIAL_REAL_ESTATE" =>
               /\ exc = ""
               /\ DOMAIN res = {"approach_enum", "approach_label", "notes"}
        /\ "output_floor" \in DOMAIN res =>
               /\ RequestExposureType \in CoveredIrbExposureTypes
               /\ "standardized_cre_details" \notin DOMAIN res.output_floor
               /\ res.output_floor.standardized_risk_weight =
                      RiskWeightUnder("BASEL_III_STANDARDIZED")

(* C25 happens: a commercial real estate exposure with a property value
   under Basel III IRB Foundation has returned the stub *)
C25_Witness ==
    /\ pc = "done"
    /\ req.approach = EnumIn("BASEL_III_IRB_FOUNDATION")
    /\ req.exposure_type = EnumIn("COMMERCIAL_REAL_ESTATE")
    /\ req.property_value = Some(10)
    /\ req.ead = MaxEad
    /\ exc = ""
    /\ "notes" \in DOMAIN res
    /\ "output_floor" \notin DOMAIN res

(* C26: calculate_loan_capital accepts every field of the request of the
   front end, the large-corporate revenue fields annual_revenue and
   revenue_threshold included: the call made by 'Run Calculation' does not
   fail on an unknown argument and returns a result record. *)
C26_FrontEndCallAccepted ==
    (pc = "done") =>
        /\ {"annual_revenue", "revenue_threshold"} \subseteq SignatureParameters
        /\ exc # "TypeError"
        /\ "approach_enum" \in DOMAIN res

(* The frames of the CRE engine that have not returned *)
CreFrames == {i \in DOMAIN stack : stack[i].fn = "cre"}

(* C27: the recursive resolution of the counterparty by the CRE engine
   terminates for every counterparty type, a counterparty that is itself
   CRE included.  The nested resolution receives no counterparty type, so a
   nested CRE resolution has the counterparty Corporate and resolves it
   without a further CRE resolution: there are never more than two CRE
   engine frames (one nested) and five frames in all, every call that has
   started returns, and it returns the record of calculate_loan_capital. *)
C27_CreResolutionTerminates ==
    /\ [](/\ Len(stack) <= 5
          /\ Cardinality(CreFrames) <= 2
          /\ \A i \in CreFrames :
                 /\ stack[i - 1].fn = "get"
                 /\ i > 2 =>
                        /\ stack[2].counterparty_type = "COMMERCIAL_REAL_ESTATE"
                        /\ stack[i - 1].counterparty_type = NoneEnum
                        /\ stack[i].counterparty_type = "CORPORATE"
          /\ pc = "done" => (exc = "" /\ res = calculate_loan_capital(req)))
    /\ ((pc = "called") ~> (pc = "done"))

(* C27 happens: the counterparty of a CRE exposure is itself CRE, and the
   nested CRE resolution is resolving its counterparty as Corporate *)
C27_Witness ==
    /\ pc = "resolving"
    /\ req.counterparty_type = EnumIn("COMMERCIAL_REAL_ESTATE")
    /\ Len(stack) = 5
    /\ Cardinality(CreFrames) = 2
    /\ stack[3].exposure_type = "COMMERCIAL_REAL_ESTATE"
    /\ stack[3].counterparty_type = NoneEnum
    /\ Top.fn = "get"
    /\ Top.exposure_type = "CORPORATE"

(* C28: for every numeric PD input (zero, negative, a decimal of (0, 1] or
   a percentage above 1 of any size) and every covered asset class and IRB
   approach, the pd_used of the computed record lies in (0, 1], and neither
   K, the RWA nor capital_required of the record is NaN. *)
C28_PdUsedIsProbability ==
    (pc = "done" /\ "pd_used" \in DOMAIN res /\ req.pd # None) =>
        /\ res.pd_used > 0
        /\ res.pd_used <= RateOne
        /\ res.K_unadjusted # NaN
        /\ res.K_adjusted # NaN
        /\ res.RWA # NaN
        /\ res.capital_required # NaN
====
